---- MODULE Spec2Model ----
(***************************************************************************)
(* OpenKeeper session engine: the action dispatcher (actions.py), the      *)
(* narration-output validation (keeper_validation.py), the visibility      *)
(* filter (visibility.py) and the session orchestrator (session.py) with   *)
(* the transport entry points of main.py that call it.                     *)
(*                                                                         *)
(* Python dicts are functions whose DOMAIN is the key set, lists are       *)
(* sequences, a raised exception is a non-empty `err` string in the        *)
(* result record of the operator that models the raising function.         *)
(***************************************************************************)
EXTENDS Integers, Sequences, FiniteSets, TLC

(***************************************************************************)
(* Bounds of the model.                                                    *)
(***************************************************************************)
MaxHp == 2
MaxSan == 2
MaxHistory == 3
MaxOracleBudget == 2
MaxRounds == 1

(***************************************************************************)
(* Program constants.                                                      *)
(***************************************************************************)
max_followups == 2

Players == {"p1", "p2"}
UnknownPlayer == "ghost"
NoExc == ""

Max(a, b) == IF a >= b THEN a ELSE b
Min(a, b) == IF a <= b THEN a ELSE b

(* dict.get(key, default) *)
Get(d, k, default) == IF k \in DOMAIN d THEN d[k] ELSE default

(* d[key] = value *)
Put(d, k, v) == [x \in (DOMAIN d) \cup {k} |-> IF x = k THEN v ELSE d[x]]

(* value in list *)
InList(s, v) == \E i \in 1..Len(s) : s[i] = v

(* list.remove(value): drops the first occurrence *)
RemoveFirst(s, v) ==
    IF ~InList(s, v) THEN s
    ELSE LET i == CHOOSE j \in 1..Len(s) : s[j] = v /\ \A k \in 1..(j - 1) : s[k] # v
         IN  SubSeq(s, 1, i - 1) \o SubSeq(s, i + 1, Len(s))

(***************************************************************************)
(* World state of one player, as PlayerProfile.model_dump produces it.     *)
(***************************************************************************)
NewPlayer(hp, hpMax, san, sanMax) ==
    [stats |-> [hp |-> hp, hp_max |-> hpMax, san |-> san, san_max |-> sanMax, luck |-> 1],
     attributes |-> [str |-> 1],
     skills |-> <<>>,
     statuses |-> <<>>,
     items |-> <<>>,
     clues |-> <<>>]

(***************************************************************************)
(* Action dispatcher (actions.py).  Every operator returns                 *)
(*   [err, players, diff]                                                  *)
(* where err is the raised exception ("" when the call returns), players   *)
(* the world state the call leaves behind and diff the returned state      *)
(* diff.                                                                   *)
(***************************************************************************)
Raise(e, ps) == [err |-> e, players |-> ps, diff |-> <<>>]
Return(ps, d) == [err |-> NoExc, players |-> ps, diff |-> d]

(* the diff {"players": {pid: fields}}; alias names the player's list      *)
(* object that the diff holds by reference, if any                         *)
PlayerDiff(pid, fields, alias) == [player |-> pid, fields |-> fields, alias |-> alias]

(* _get_player, together with the params["player_id"] lookup of its caller *)
PlayerError(ps, params) ==
    IF "player_id" \notin DOMAIN params THEN "KeyError: player_id"
    ELSE IF params.player_id \notin DOMAIN ps THEN "KeyError: Player not found"
    ELSE NoExc

(* damage that is not held under hp_max *)
_apply_damage_unclamped(ps, params) ==
    IF PlayerError(ps, params) # NoExc THEN Raise(PlayerError(ps, params), ps)
    ELSE IF "amount" \notin DOMAIN params THEN Raise("KeyError: amount", ps)
    ELSE
      LET pid == params.player_id
          stats == ps[pid].stats
          current == Get(stats, "hp", 0)
          hp_max == Get(stats, "hp_max", current)
          hp == Max(0, current - params.amount)
          stats2 == Put(stats, "hp", hp)
      IN  Return([ps EXCEPT ![pid].stats = stats2],
                 PlayerDiff(pid, [hp |-> hp, hp_max |-> hp_max,
                                  last_damage |-> params.amount], ""))

(* the damage that is taken by every player *)
_apply_damage_to_everyone(ps, params) ==
    IF PlayerError(ps, params) # NoExc THEN Raise(PlayerError(ps, params), ps)
    ELSE IF "amount" \notin DOMAIN params THEN Raise("KeyError: amount", ps)
    ELSE
      LET pid == params.player_id
          hit(stats) == Put(stats, "hp", Max(0, Min(Get(stats, "hp_max", Get(stats, "hp", 0)),
                                                    Get(stats, "hp", 0) - params.amount)))
      IN  Return([q \in DOMAIN ps |-> [ps[q] EXCEPT !.stats = hit(@)]],
                 PlayerDiff(pid, [hp |-> hit(ps[pid].stats).hp,
                                  hp_max |-> Get(ps[pid].stats, "hp_max", Get(ps[pid].stats, "hp", 0)),
                                  last_damage |-> params.amount], ""))

_apply_damage(ps, params) ==
    IF PlayerError(ps, params) # NoExc THEN Raise(PlayerError(ps, params), ps)
    ELSE IF "amount" \notin DOMAIN params THEN Raise("KeyError: amount", ps)
    ELSE
      LET pid == params.player_id
          stats == ps[pid].stats
          current == Get(stats, "hp", 0)
          hp_max == Get(stats, "hp_max", current)
          hp == Max(0, Min(hp_max, current - params.amount))
          stats2 == Put(stats, "hp", hp)
      IN  Return([ps EXCEPT ![pid].stats = stats2],
                 PlayerDiff(pid, [hp |-> hp, hp_max |-> hp_max,
                                  last_damage |-> params.amount], ""))

_apply_sanity_change(ps, params) ==
    IF PlayerError(ps, params) # NoExc THEN Raise(PlayerError(ps, params), ps)
    ELSE IF "amount" \notin DOMAIN params THEN Raise("KeyError: amount", ps)
    ELSE
      LET pid == params.player_id
          stats == ps[pid].stats
          current == Get(stats, "san", 0)
          san_max == Get(stats, "san_max", current)
          san == Max(0, Min(san_max, current + params.amount))
          stats2 == Put(stats, "san", san)
      IN  Return([ps EXCEPT ![pid].stats = stats2],
                 PlayerDiff(pid, [san |-> san, san_max |-> san_max,
                                  last_sanity |-> params.amount], ""))

(* An attribute name is the sequence of its dot-separated parts:           *)
(* "skills.occult" is <<"skills", "occult">>, "hp" is <<"hp">>.            *)
IsSkillPath(attribute) == Len(attribute) >= 2 /\ attribute[1] = "skills"
(* the dict key the name is looked up under: a dotted name that is not a   *)
(* skill path is a key no attribute or stat dict has                       *)
AttrKey(attribute) == IF Len(attribute) = 1 THEN attribute[1] ELSE "<dotted>"

(* the stats branch that lowers a maximum without lowering the value *)
UpdateStatNoReclamp(stats, attribute, delta) ==
    LET new0 == Get(stats, attribute, 0) + delta
    IN  IF attribute = "hp" THEN Put(stats, "hp", Max(0, Min(Get(stats, "hp_max", new0), new0)))
        ELSE IF attribute = "san"
        THEN Put(stats, "san", Max(0, Min(Get(stats, "san_max", new0), new0)))
        ELSE IF attribute \in {"hp_max", "san_max"} THEN Put(stats, attribute, Max(1, new0))
        ELSE Put(stats, attribute, new0)

(* the stats branch whose maxima may fall to 0 *)
UpdateStatFloorZero(stats, attribute, delta) ==
    LET new0 == Get(stats, attribute, 0) + delta
    IN  IF attribute = "hp" THEN
          Put(Put(stats, "hp_max", Get(stats, "hp_max", new0)), "hp",
              Max(0, Min(Get(stats, "hp_max", new0), new0)))
        ELSE IF attribute = "san" THEN
          Put(Put(stats, "san_max", Get(stats, "san_max", new0)), "san",
              Max(0, Min(Get(stats, "san_max", new0), new0)))
        ELSE IF attribute = "hp_max" THEN
          Put(Put(stats, "hp", Min(Get(stats, "hp", Max(0, new0)), Max(0, new0))), "hp_max", Max(0, new0))
        ELSE IF attribute = "san_max" THEN
          Put(Put(stats, "san", Min(Get(stats, "san", Max(0, new0)), Max(0, new0))), "san_max", Max(0, new0))
        ELSE Put(stats, attribute, new0)

(* the stats branch of _update_player_attribute, lines 250-270 *)
UpdateStat(stats, attribute, delta) ==
    LET new0 == Get(stats, attribute, 0) + delta
    IN  IF attribute = "hp" THEN
          LET hp_max == Get(stats, "hp_max", new0)
              v == Max(0, Min(hp_max, new0))
          IN  Put(Put(stats, "hp_max", hp_max), "hp", v)
        ELSE IF attribute = "san" THEN
          LET san_max == Get(stats, "san_max", new0)
              v == Max(0, Min(san_max, new0))
          IN  Put(Put(stats, "san_max", san_max), "san", v)
        ELSE IF attribute = "hp_max" THEN
          LET v == Max(1, new0)
          IN  Put(Put(stats, "hp", Min(Get(stats, "hp", v), v)), "hp_max", v)
        ELSE IF attribute = "san_max" THEN
          LET v == Max(1, new0)
          IN  Put(Put(stats, "san", Min(Get(stats, "san", v), v)), "san_max", v)
        ELSE Put(stats, attribute, new0)

(* the update that writes the stat before it finds the name unknown *)
_update_player_attribute_writing_first(ps, params) ==
    IF PlayerError(ps, params) # NoExc THEN Raise(PlayerError(ps, params), ps)
    ELSE IF "attribute" \notin DOMAIN params THEN Raise("KeyError: attribute", ps)
    ELSE IF "delta" \notin DOMAIN params THEN Raise("KeyError: delta", ps)
    ELSE
      LET pid == params.player_id
          attribute == params.attribute
          delta == params.delta
          player == ps[pid]
          key == AttrKey(attribute)
      IN  IF IsSkillPath(attribute) THEN
            LET skill == attribute[2]
                v == Get(player.skills, skill, 0) + delta
            IN  Return([ps EXCEPT ![pid].skills = Put(player.skills, skill, v)],
                       PlayerDiff(pid, [skills |-> [name |-> skill, value |-> v]], ""))
          ELSE IF key \in DOMAIN player.attributes THEN
            LET v == player.attributes[key] + delta
            IN  Return([ps EXCEPT ![pid].attributes = Put(player.attributes, key, v)],
                       PlayerDiff(pid, [attributes |-> [name |-> key, value |-> v]], ""))
          ELSE IF key \in DOMAIN player.stats THEN
            LET stats2 == UpdateStat(player.stats, key, delta)
            IN  Return([ps EXCEPT ![pid].stats = stats2],
                       PlayerDiff(pid, [stats |-> [name |-> key, value |-> stats2[key]]], ""))
          ELSE Raise("KeyError: Unknown attribute",
                     [ps EXCEPT ![pid].stats = Put(player.stats, key, delta)])

(* the update that takes a name it does not know for a new stat *)
_update_player_attribute_creating(ps, params) ==
    IF PlayerError(ps, params) # NoExc THEN Raise(PlayerError(ps, params), ps)
    ELSE IF "attribute" \notin DOMAIN params THEN Raise("KeyError: attribute", ps)
    ELSE IF "delta" \notin DOMAIN params THEN Raise("KeyError: delta", ps)
    ELSE
      LET pid == params.player_id
          attribute == params.attribute
          delta == params.delta
          player == ps[pid]
          key == AttrKey(attribute)
      IN  IF IsSkillPath(attribute) THEN
            LET skill == attribute[2]
                v == Get(player.skills, skill, 0) + delta
            IN  Return([ps EXCEPT ![pid].skills = Put(player.skills, skill, v)],
                       PlayerDiff(pid, [skills |-> [name |-> skill, value |-> v]], ""))
          ELSE IF key \in DOMAIN player.attributes THEN
            LET v == player.attributes[key] + delta
            IN  Return([ps EXCEPT ![pid].attributes = Put(player.attributes, key, v)],
                       PlayerDiff(pid, [attributes |-> [name |-> key, value |-> v]], ""))
          ELSE
            LET stats2 == UpdateStat(player.stats, key, delta)
            IN  Return([ps EXCEPT ![pid].stats = stats2],
                       PlayerDiff(pid, [stats |-> [name |-> key, value |-> stats2[key]]], ""))

_update_player_attribute(ps, params) ==
    IF PlayerError(ps, params) # NoExc THEN Raise(PlayerError(ps, params), ps)
    ELSE IF "attribute" \notin DOMAIN params THEN Raise("KeyError: attribute", ps)
    ELSE IF "delta" \notin DOMAIN params THEN Raise("KeyError: delta", ps)
    ELSE
      LET pid == params.player_id
          attribute == params.attribute
          delta == params.delta
          player == ps[pid]
          key == AttrKey(attribute)
      IN  IF IsSkillPath(attribute) THEN
            LET skill == attribute[2]
                v == Get(player.skills, skill, 0) + delta
            IN  Return([ps EXCEPT ![pid].skills = Put(player.skills, skill, v)],
                       PlayerDiff(pid, [skills |-> [name |-> skill, value |-> v]], ""))
          ELSE IF key \in DOMAIN player.attributes THEN
            LET v == player.attributes[key] + delta
            IN  Return([ps EXCEPT ![pid].attributes = Put(player.attributes, key, v)],
                       PlayerDiff(pid, [attributes |-> [name |-> key, value |-> v]], ""))
          ELSE IF key \in DOMAIN player.stats THEN
            LET stats2 == UpdateStat(player.stats, key, delta)
            IN  Return([ps EXCEPT ![pid].stats = stats2],
                       PlayerDiff(pid, [stats |-> [name |-> key, value |-> stats2[key]]], ""))
          ELSE Raise("KeyError: Unknown attribute", ps)

(* the add that appends the tag whether or not it is there *)
_add_status_always(ps, params) ==
    IF PlayerError(ps, params) # NoExc THEN Raise(PlayerError(ps, params), ps)
    ELSE IF "status" \notin DOMAIN params THEN Raise("KeyError: status", ps)
    ELSE Return([ps EXCEPT ![params.player_id].statuses = Append(@, params.status)],
                PlayerDiff(params.player_id, <<>>, "statuses"))

_add_status(ps, params) ==
    IF PlayerError(ps, params) # NoExc THEN Raise(PlayerError(ps, params), ps)
    ELSE IF "status" \notin DOMAIN params THEN Raise("KeyError: status", ps)
    ELSE
      LET pid == params.player_id
          statuses == ps[pid].statuses
          new == IF ~InList(statuses, params.status)
                 THEN Append(statuses, params.status) ELSE statuses
      IN  Return([ps EXCEPT ![pid].statuses = new],
                 PlayerDiff(pid, <<>>, "statuses"))

_remove_status(ps, params) ==
    IF PlayerError(ps, params) # NoExc THEN Raise(PlayerError(ps, params), ps)
    ELSE IF "status" \notin DOMAIN params THEN Raise("KeyError: status", ps)
    ELSE
      LET pid == params.player_id
          statuses == ps[pid].statuses
          new == IF InList(statuses, params.status)
                 THEN RemoveFirst(statuses, params.status) ELSE statuses
      IN  Return([ps EXCEPT ![pid].statuses = new],
                 PlayerDiff(pid, <<>>, "statuses"))

(***************************************************************************)
(* Findings (items and clues), actions.py lines 293-357.  A raw finding is *)
(* a string or a dict; "" is the falsy string.                             *)
(***************************************************************************)
Truthy(d, k) == k \in DOMAIN d /\ d[k] # ""

_normalize_finding(raw, isString) ==
    IF isString THEN [description |-> raw]
    ELSE
      LET description ==
            IF Truthy(raw, "description") THEN raw.description
            ELSE IF Truthy(raw, "name") THEN raw.name
            ELSE IF Truthy(raw, "clue_id") THEN raw.clue_id
            ELSE IF Truthy(raw, "item_id") THEN raw.item_id
            ELSE IF Truthy(raw, "id") THEN raw.id
            ELSE ""
          r1 == [description |-> description]
          r2 == IF Truthy(raw, "reveal") THEN Put(r1, "reveal", raw.reveal) ELSE r1
      IN  IF Truthy(raw, "effect") THEN Put(r2, "effect", raw.effect) ELSE r2

(* A raw entry of the parameters is tagged [str, raw]: str says whether    *)
(* the Python value is a string.                                           *)
_extract_entries(params, key) ==
    LET plural == IF key = "item" THEN "items" ELSE "clues"
        e1 == IF plural \in DOMAIN params THEN params[plural] ELSE <<>>
        e2 == IF key \in DOMAIN params THEN Append(e1, params[key]) ELSE e1
        bare == \E k \in {"description", "name", "reveal", "effect", "details"} :
                    k \in DOMAIN params
        e3 == IF e2 = <<>> /\ bare THEN <<[str |-> FALSE, raw |-> params]>> ELSE e2
        normalized == [i \in 1..Len(e3) |-> _normalize_finding(e3[i].raw, e3[i].str)]
    IN  SelectSeq(normalized, LAMBDA item : item.description # "")

(* the merge that appends every incoming entry that has a description *)
RECURSIVE _merge_findings_without_known(_, _)
_merge_findings_without_known(existing, incoming) ==
    IF incoming = <<>> THEN existing
    ELSE IF Head(incoming).description = ""
    THEN _merge_findings_without_known(existing, Tail(incoming))
    ELSE _merge_findings_without_known(Append(existing, Head(incoming)), Tail(incoming))

RECURSIVE _merge_findings(_, _)
_merge_findings(existing, incoming) ==
    IF incoming = <<>> THEN existing
    ELSE
      LET entry == Head(incoming)
          known == {existing[i].description : i \in 1..Len(existing)} \ {""}
      IN  IF entry.description = "" \/ entry.description \in known
          THEN _merge_findings(existing, Tail(incoming))
          ELSE _merge_findings(Append(existing, entry), Tail(incoming))

_add_item(ps, params) ==
    IF PlayerError(ps, params) # NoExc THEN Raise(PlayerError(ps, params), ps)
    ELSE
      LET pid == params.player_id
          items == _merge_findings(ps[pid].items, _extract_entries(params, "item"))
      IN  Return([ps EXCEPT ![pid].items = items], PlayerDiff(pid, <<>>, "items"))

_add_clue(ps, params) ==
    IF PlayerError(ps, params) # NoExc THEN Raise(PlayerError(ps, params), ps)
    ELSE
      LET pid == params.player_id
          clues == _merge_findings(ps[pid].clues, _extract_entries(params, "clue"))
      IN  Return([ps EXCEPT ![pid].clues = clues], PlayerDiff(pid, <<>>, "clues"))

(***************************************************************************)
(* Dice and rules resolver, actions.py lines 10-112.  The random draws are *)
(* inputs: unit and tens digits for a percentile check, the dice of an     *)
(* expression.                                                             *)
(***************************************************************************)
(* the classification in which a roll of 96 or more always fumbles *)
_coc_success_level_fumble_from_96(roll, target) ==
    IF roll = 1 THEN "critical"
    ELSE IF roll >= 96 THEN "fumble"
    ELSE IF roll <= Max(1, target \div 5) THEN "extreme_success"
    ELSE IF roll <= Max(1, target \div 2) THEN "hard_success"
    ELSE IF roll <= target THEN "regular_success"
    ELSE "failure"

_coc_success_level(roll, target) ==
    IF roll = 1 THEN "critical"
    ELSE IF target < 50 /\ roll >= 96 THEN "fumble"
    ELSE IF target >= 50 /\ roll = 100 THEN "fumble"
    ELSE IF roll <= Max(1, target \div 5) THEN "extreme_success"
    ELSE IF roll <= Max(1, target \div 2) THEN "hard_success"
    ELSE IF roll <= target THEN "regular_success"
    ELSE "failure"

Abs(n) == IF n < 0 THEN -n ELSE n

SeqMin(s) == CHOOSE v \in {s[i] : i \in 1..Len(s)} : \A i \in 1..Len(s) : v <= s[i]
SeqMax(s) == CHOOSE v \in {s[i] : i \in 1..Len(s)} : \A i \in 1..Len(s) : v >= s[i]

(* tens_count: how many tens digits roll_coc_check draws *)
TensCount(bonus_dice, penalty_dice) ==
    1 + Abs(Max(0, bonus_dice) - Max(0, penalty_dice))

(* the result whose total is not lifted from 0 to 100 *)
CocResultFromZero(target, bonus, penalty, unit, tens_rolls, chosen_tens) ==
    [type |-> "coc7e", unit |-> unit, tens |-> chosen_tens, tens_rolls |-> tens_rolls,
     bonus_dice |-> bonus, penalty_dice |-> penalty, target |-> target,
     total |-> chosen_tens * 10 + unit,
     success_level |-> _coc_success_level(chosen_tens * 10 + unit, target)]

(* lines 45-60 of roll_coc_check: the total and the result dict *)
CocResult(target, bonus, penalty, unit, tens_rolls, chosen_tens) ==
    LET total0 == chosen_tens * 10 + unit
    IN  [type |-> "coc7e", unit |-> unit, tens |-> chosen_tens, tens_rolls |-> tens_rolls,
         bonus_dice |-> bonus, penalty_dice |-> penalty, target |-> target,
         total |-> IF total0 = 0 THEN 100 ELSE total0,
         success_level |-> _coc_success_level(IF total0 = 0 THEN 100 ELSE total0, target)]

(* lines 41-44 of roll_coc_check: the tens digit kept *)
CocChosenTens(target, bonus, penalty, unit, tens_rolls) ==
    CocResult(target, bonus, penalty, unit, tens_rolls,
              IF bonus - penalty >= 0 THEN SeqMin(tens_rolls) ELSE SeqMax(tens_rolls))

(* unit: the unit digit drawn; tens: the tens digits drawn, in order *)
roll_coc_check(target, bonus_dice, penalty_dice, unit, tens) ==
    CocChosenTens(target, Max(0, bonus_dice), Max(0, penalty_dice), unit,
                  SubSeq(tens, 1, TensCount(bonus_dice, penalty_dice)))

_success_rank(level) ==
    CASE level = "critical" -> 5
      [] level = "extreme_success" -> 4
      [] level = "hard_success" -> 3
      [] level = "regular_success" -> 2
      [] level = "failure" -> 1
      [] level = "fumble" -> 0
      [] OTHER -> 1

(* the comparison that stops after the targets *)
_compare_opposed_without_total(a, b) ==
    LET ar == _success_rank(Get(a, "success_level", "failure"))
        br == _success_rank(Get(b, "success_level", "failure"))
        at == Get(a, "target", 0)
        bt == Get(b, "target", 0)
    IN  IF ar > br THEN "attacker"
        ELSE IF br > ar THEN "defender"
        ELSE IF at > bt THEN "attacker"
        ELSE IF bt > at THEN "defender"
        ELSE "tie"

_compare_opposed(a, b) ==
    LET ar == _success_rank(Get(a, "success_level", "failure"))
        br == _success_rank(Get(b, "success_level", "failure"))
        at == Get(a, "target", 0)
        bt == Get(b, "target", 0)
        aroll == Get(a, "total", 0)
        broll == Get(b, "total", 0)
    IN  IF ar > br THEN "attacker"
        ELSE IF br > ar THEN "defender"
        ELSE IF at > bt THEN "attacker"
        ELSE IF bt > at THEN "defender"
        ELSE IF aroll > broll THEN "attacker"
        ELSE IF broll > aroll THEN "defender"
        ELSE "tie"

(* A dice expression is the sequence of its characters. *)
Digits == {"0", "1", "2", "3", "4", "5", "6", "7", "8", "9"}
DigitVal(c) ==
    CASE c = "0" -> 0 [] c = "1" -> 1 [] c = "2" -> 2 [] c = "3" -> 3 [] c = "4" -> 4
      [] c = "5" -> 5 [] c = "6" -> 6 [] c = "7" -> 7 [] c = "8" -> 8 [] c = "9" -> 9

RECURSIVE ParseInt(_)
ParseInt(ds) ==
    IF ds = <<>> THEN 0
    ELSE ParseInt(SubSeq(ds, 1, Len(ds) - 1)) * 10 + DigitVal(ds[Len(ds)])

(* last index of the maximal run of digits that starts at i *)
RunEnd(s, i) ==
    CHOOSE j \in i..Len(s) :
        /\ \A k \in i..j : s[k] \in Digits
        /\ (j = Len(s) \/ s[j + 1] \notin Digits)

(* _DICE_RE can match with its first group starting at i *)
MatchAt(s, i) ==
    /\ s[i] \in Digits
    /\ LET k == RunEnd(s, i)
       IN  k + 2 <= Len(s) /\ s[k + 1] \in {"d", "D"} /\ s[k + 2] \in Digits

(* the match whose groups are s[i..k], s[k+2..m] and, with hasMod,         *)
(* s[m+1..n]                                                               *)
DiceMatch(s, i, k, m, n, hasMod) ==
    [found |-> TRUE, first |-> i, last |-> n,
     count |-> ParseInt(SubSeq(s, i, k)),
     sides |-> ParseInt(SubSeq(s, k + 2, m)),
     modifier |-> IF ~hasMod THEN 0
                  ELSE IF s[m + 1] = "-" THEN -ParseInt(SubSeq(s, m + 2, n))
                  ELSE ParseInt(SubSeq(s, m + 2, n))]

(* the optional third group ([+-]\d+)? *)
DiceModifier(s, i, k, m) ==
    IF m + 2 <= Len(s) /\ s[m + 1] \in {"+", "-"} /\ s[m + 2] \in Digits
    THEN DiceMatch(s, i, k, m, RunEnd(s, m + 2), TRUE)
    ELSE DiceMatch(s, i, k, m, m, FALSE)

(* the second group (\d+), after the d *)
DiceSides(s, i, k) == DiceModifier(s, i, k, RunEnd(s, k + 2))

(* the first group (\d+), from i *)
DiceCount(s, i) == DiceSides(s, i, RunEnd(s, i))

(* _DICE_RE.search: the leftmost match, every group greedy *)
DiceSearch(s) ==
    IF ~\E i \in 1..Len(s) : MatchAt(s, i) THEN [found |-> FALSE]
    ELSE DiceCount(s, CHOOSE a \in 1..Len(s) : MatchAt(s, a) /\ \A b \in 1..(a - 1) : ~MatchAt(s, b))

RECURSIVE SeqSum(_)
SeqSum(s) == IF s = <<>> THEN 0 ELSE Head(s) + SeqSum(Tail(s))

(* lines 100-112 of roll_dice_expression, match being the regex match;     *)
(* random.randint(1, 0) raises                                             *)
RollMatched(expr, rolls, match) ==
    IF ~match.found THEN [err |-> "ValueError: Invalid dice expression"]
    ELSE IF match.count > 0 /\ match.sides < 1 THEN [err |-> "ValueError: empty range"]
    ELSE [err |-> NoExc, expression |-> expr, rolls |-> SubSeq(rolls, 1, match.count),
          modifier |-> match.modifier,
          total |-> SeqSum(SubSeq(rolls, 1, match.count)) + match.modifier]

(* rolls: the dice drawn, each in 1..sides *)
roll_dice_expression(expr, rolls) ==
    RollMatched(expr, rolls, DiceSearch(SelectSeq(expr, LAMBDA c : c # " ")))

(***************************************************************************)
(* dispatch_action, actions.py lines 115-190.  An ActionCall is            *)
(* [function_name, parameters]; rnd holds the random draws of the call.    *)
(***************************************************************************)
Successes == {"critical", "extreme_success", "hard_success", "regular_success"}

IsSuccess(level, difficulty) ==
    LET required == CASE difficulty = "hard" -> "hard_success"
                      [] difficulty = "extreme" -> "extreme_success"
                      [] OTHER -> "regular_success"
    IN  /\ level \in Successes
        /\ \/ required = "regular_success"
           \/ required = "hard_success" /\ level \in {"hard_success", "extreme_success", "critical"}
           \/ required = "extreme_success" /\ level \in {"extreme_success", "critical"}

(* lines 126-146: the diff of a percentile check *)
CheckDiff(ps, result, difficulty) ==
    Return(ps, [dice |-> result, difficulty |-> difficulty,
                is_success |-> IsSuccess(result.success_level, difficulty)])

(* lines 147-148: the diff of a dice expression *)
ExpressionDiff(ps, result) ==
    IF result.err # NoExc THEN Raise(result.err, ps) ELSE Return(ps, [dice |-> result])

DispatchRollDice(ps, params, rnd) ==
    IF "target" \in DOMAIN params THEN
      CheckDiff(ps, roll_coc_check(params.target, Get(params, "bonus_dice", 0),
                                   Get(params, "penalty_dice", 0), rnd.unit, rnd.tens),
                Get(params, "difficulty", "regular"))
    ELSE IF "dice_expression" \notin DOMAIN params THEN Raise("KeyError: dice_expression", ps)
    ELSE ExpressionDiff(ps, roll_dice_expression(params.dice_expression, rnd.rolls))

(* lines 163-175: the diff of an opposed check *)
OpposedDiff(ps, a_roll, b_roll) ==
    Return(ps, [opposed |-> TRUE, attacker |-> a_roll, defender |-> b_roll,
                winner |-> _compare_opposed(a_roll, b_roll)])

(* lines 150-162: the two rolls *)
OpposedRolls(ps, attacker, defender, rnd) ==
    OpposedDiff(ps,
                roll_coc_check(Get(attacker, "target", 0), Get(attacker, "bonus_dice", 0),
                               Get(attacker, "penalty_dice", 0), rnd.unit, rnd.tens),
                roll_coc_check(Get(defender, "target", 0), Get(defender, "bonus_dice", 0),
                               Get(defender, "penalty_dice", 0), rnd.unit2, rnd.tens2))

DispatchOpposeCheck(ps, params, rnd) ==
    OpposedRolls(ps, Get(params, "attacker", <<>>), Get(params, "defender", <<>>), rnd)

dispatch_action(action, ps, rnd) ==
    LET fn == action.function_name
        params == action.parameters
    IN  CASE fn = "roll_dice" -> DispatchRollDice(ps, params, rnd)
          [] fn = "oppose_check" -> DispatchOpposeCheck(ps, params, rnd)
          [] fn = "apply_damage" -> _apply_damage(ps, params)
          [] fn = "apply_sanity_change" -> _apply_sanity_change(ps, params)
          [] fn = "update_player_attribute" -> _update_player_attribute(ps, params)
          [] fn = "add_item" -> _add_item(ps, params)
          [] fn = "add_clue" -> _add_clue(ps, params)
          [] fn = "add_status" -> _add_status(ps, params)
          [] fn = "remove_status" -> _remove_status(ps, params)
          [] OTHER -> Raise("ValueError: Unsupported function", ps)

(***************************************************************************)
(* Narration output validation, keeper_validation.py.  A KeeperOutput is   *)
(* [message_type, visible_to, has_content, actions, parse_error]; the      *)
(* amounts and deltas of the model are always integers.                    *)
(***************************************************************************)
ActionErrors(action) ==
    LET fn == action.function_name
        params == action.parameters
    IN  IF fn \in {"apply_damage", "apply_sanity_change"} /\ "amount" \notin DOMAIN params
          THEN <<"requires amount">>
        ELSE IF fn = "update_player_attribute" /\ "delta" \notin DOMAIN params
          THEN <<"requires delta">>
        ELSE IF fn = "end_module"
                /\ ("ending_id" \notin DOMAIN params \/ "description" \notin DOMAIN params)
          THEN <<"end_module requires ending_id and description">>
        ELSE <<>>

RECURSIVE AllActionErrors(_)
AllActionErrors(actions) ==
    IF actions = <<>> THEN <<>>
    ELSE ActionErrors(Head(actions)) \o AllActionErrors(Tail(actions))

(* the validation without the rule that a secret output excludes "all" *)
validate_without_all_rule(output) ==
    LET vis == output.visible_to
        e1 == IF output.message_type = "public" /\ vis # <<"all">>
              THEN <<"public message must have visible_to = ['all']">> ELSE <<>>
        e2 == IF output.message_type = "secret" /\ vis = <<>>
              THEN <<"secret message must have visible_to">> ELSE <<>>
        e4 == IF output.message_type = "system" /\ vis = <<>>
              THEN <<"system message must have visible_to">> ELSE <<>>
        e5 == IF ~output.has_content THEN <<"content is required">> ELSE <<>>
    IN  e1 \o e2 \o e4 \o e5 \o AllActionErrors(output.actions)

(* the validation without the visibility rules *)
validate_content_and_actions_only(output) ==
    (IF ~output.has_content THEN <<"content is required">> ELSE <<>>)
    \o AllActionErrors(output.actions)

validate_keeper_output(output) ==
    LET vis == output.visible_to
        e1 == IF output.message_type = "public" /\ vis # <<"all">>
              THEN <<"public message must have visible_to = ['all']">> ELSE <<>>
        e2 == IF output.message_type = "secret" /\ vis = <<>>
              THEN <<"secret message must have visible_to">> ELSE <<>>
        e3 == IF output.message_type = "secret" /\ InList(vis, "all")
              THEN <<"secret message cannot include 'all' in visible_to">> ELSE <<>>
        e4 == IF output.message_type = "system" /\ vis = <<>>
              THEN <<"system message must have visible_to">> ELSE <<>>
        e5 == IF ~output.has_content THEN <<"content is required">> ELSE <<>>
    IN  e1 \o e2 \o e3 \o e4 \o e5 \o AllActionErrors(output.actions)

(***************************************************************************)
(* Visibility filter, visibility.py.                                       *)
(***************************************************************************)
(* the filter without the host branch *)
is_visible_without_host(entry, viewer_id, viewer_role) ==
    IF entry.message_type = "public" THEN TRUE
    ELSE InList(entry.visible_to, "all") \/ InList(entry.visible_to, viewer_id)

is_visible(entry, viewer_id, viewer_role) ==
    IF entry.message_type = "public" THEN TRUE
    ELSE IF viewer_role = "host" THEN TRUE
    ELSE InList(entry.visible_to, "all") \/ InList(entry.visible_to, viewer_id)

filter_history(history, viewer_id, viewer_role) ==
    SelectSeq(history, LAMBDA entry : is_visible(entry, viewer_id, viewer_role))

(* dict.get(key): None when the key is absent *)
None == "None"

(* the summary that keeps the statuses of the other player *)
SummarizeWithStatuses(pid, pdata) ==
    [player_id |-> Get(pdata, "player_id", pid), name |-> Get(pdata, "name", None),
     color |-> Get(pdata, "color", None), stats |-> Get(pdata, "stats", <<>>),
     statuses |-> Get(pdata, "statuses", <<>>)]

(* lines 28-38 of filter_state: what a viewer sees of another player *)
Summarize(pid, pdata) ==
    LET stats == Get(pdata, "stats", <<>>)
    IN  [player_id |-> Get(pdata, "player_id", pid),
         name |-> Get(pdata, "name", None),
         color |-> Get(pdata, "color", None),
         stats |-> [hp |-> Get(stats, "hp", None),
                    hp_max |-> Get(stats, "hp_max", Get(stats, "hp", None)),
                    san |-> Get(stats, "san", None),
                    san_max |-> Get(stats, "san_max", Get(stats, "san", None))]]

(* filter_state, visibility.py 18-40; state is current_state *)
filter_state(state, viewer_id, viewer_role) ==
    IF viewer_role = "host" THEN state
    ELSE LET ps == Get(state, "players", <<>>)
         IN  Put(state, "players",
                 [pid \in DOMAIN ps |-> IF pid = viewer_id THEN ps[pid]
                                        ELSE Summarize(pid, ps[pid])])

(***************************************************************************)
(* Session orchestrator (session.py).                                      *)
(*                                                                         *)
(* A world record w is the mutable state of the SessionManager that the    *)
(* pipeline touches: [players, phase, ending_forced, history,              *)
(* last_online_ids, hp_drops, san_drops].  phase "unset" is a              *)
(* current_state without the "phase" key.                                  *)
(* hp_drops[p] and san_drops[p] count how often p's hp (san) went from     *)
(* above 0 to 0 or below since the history cache was last emptied; they    *)
(* are history variables of the model.                                     *)
(***************************************************************************)
(* a localized text: the template and the name it mentions *)
Text(template, name) == [text |-> template, name |-> name]

(* _make_history_entry; content names the text template and its subject *)
HistoryEntry(actor_type, actor_id, action_type, message_type, visible_to, content, actions, state_diff) ==
    [actor_type |-> actor_type, actor_id |-> actor_id, action_type |-> action_type,
     message_type |-> message_type, visible_to |-> visible_to, content |-> content,
     actions |-> actions, state_diff |-> state_diff]

SystemNotice(visible_to, content, state_diff) ==
    HistoryEntry("system", "system", "rule_resolution", "system", visible_to, content,
                 <<>>, state_diff)

NotStartedEntry(player_id) == SystemNotice(<<player_id>>, Text("not_started", ""), <<>>)
CannotActEntry(player_id) == SystemNotice(<<player_id>>, Text("dead_or_insane", ""), <<>>)
PlayerEntry(player_id) ==
    HistoryEntry("player", player_id, "player_action", "public", <<"all">>, Text("action_text", ""),
                 <<>>, <<>>)
InvalidOutputEntry(errors) ==
    SystemNotice(<<"all">>, Text("keeper_output_invalid", ""), [validation_errors |-> errors])
NarrationEntry(output) ==
    HistoryEntry("keeper", "keeper", "keeper_narration", output.message_type, output.visible_to,
                 Text("narration", ""), output.actions, <<>>)
TimeoutFillerEntry(msg) == SystemNotice(<<"all">>, Text("keeper_falters", ""), [keeper_error |-> msg])
KeeperFailedEntry(msg) == SystemNotice(<<"host">>, Text("keeper_call_failed", ""), [keeper_error |-> msg])
FollowupFailedEntry == SystemNotice(<<"host">>, Text("followup_failed", ""), <<>>)
DeathEntry(player_id) ==
    HistoryEntry("keeper", "keeper", "keeper_narration", "public", <<"all">>,
                 Text("death", player_id), <<>>, <<>>)
MadnessEntry(player_id) ==
    HistoryEntry("keeper", "keeper", "keeper_narration", "public", <<"all">>,
                 Text("madness", player_id), <<>>, <<>>)
ActionEntry(action, state_diff) ==
    HistoryEntry("system", "system",
                 IF action.function_name \in {"roll_dice", "oppose_check"}
                 THEN "dice_roll" ELSE "state_update",
                 "system", <<"all">>, Text("action_summary", ""), <<action>>, state_diff)

(* the module catalogue the session was started with *)
ModuleEndings == <<[ending_id |-> "e1", conditions |-> "all investigators fall"],
                   [ending_id |-> "e2", conditions |-> ""]>>
ModuleEndingTriggers == <<"the ritual completes", "dawn breaks">>

(* the Module of the session: its endings and its generic triggers *)
DefaultModule == [possible_endings |-> ModuleEndings, ending_triggers |-> ModuleEndingTriggers]

(* the conditions lookup without the fallback to the triggers *)
EndingConditionsNoFallback(mod, ending_id) ==
    LET hits == {i \in 1..Len(mod.possible_endings) : mod.possible_endings[i].ending_id = ending_id}
        first == CHOOSE i \in hits : \A j \in hits : i <= j
        conditions == IF hits = {} THEN "" ELSE mod.possible_endings[first].conditions
    IN  IF conditions = "" THEN <<>> ELSE <<conditions>>

(* end_session lines 881-887.  A conditions text is the list of its parts: *)
(* <<>> is the empty text, a catalogue text is one part, the joined        *)
(* triggers are the triggers in order.                                     *)
EndingConditions(mod, ending_id) ==
    LET hits == {i \in 1..Len(mod.possible_endings) : mod.possible_endings[i].ending_id = ending_id}
        first == CHOOSE i \in hits : \A j \in hits : i <= j
        conditions == IF hits = {} THEN "" ELSE mod.possible_endings[first].conditions
    IN  IF conditions = "" /\ mod.ending_triggers # <<>>
        THEN mod.ending_triggers
        ELSE IF conditions = "" THEN <<>> ELSE <<conditions>>

EndingEntry(mod, ending_id, description, keeper_text) ==
    HistoryEntry("system", "system", "rule_resolution", "public", <<"all">>, Text("module_ended", ""),
                 <<>>,
                 [ending_id |-> ending_id, description |-> description,
                  keeper_text |-> keeper_text, conditions |-> EndingConditions(mod, ending_id)])

(* _record_history: append to the history cache *)
Record(w, entry) == [w EXCEPT !.history = Append(@, entry)]

(* end_session, lines 875-906: returns the world and the entry *)
EndSessionIn(w, ending_id, description, keeper_text) ==
    LET entry == EndingEntry(w.module, ending_id, description, keeper_text)
    IN  [w |-> Record([w EXCEPT !.phase = "ended"], entry), entry |-> entry]

StatOf(ps, player_id, stat) ==
    IF player_id \in DOMAIN ps THEN Get(ps[player_id].stats, stat, 1) ELSE 1

(* _is_player_active *)
_is_player_active(ps, player_id) ==
    StatOf(ps, player_id, "hp") > 0 /\ StatOf(ps, player_id, "san") > 0

(* _all_players_inactive; online_ids is the set of ids, {} for None or [] *)
_all_players_inactive(ps, online_ids) ==
    LET quorum == IF online_ids # {} THEN (DOMAIN ps) \cap online_ids ELSE DOMAIN ps
    IN  quorum # {} /\ \A p \in quorum : ~_is_player_active(ps, p)

HasEndModule(actions) == \E i \in 1..Len(actions) : actions[i].function_name = "end_module"

(* _should_force_ending; actions is <<>> for None *)
_should_force_ending(w, actions, online_ids) ==
    IF w.phase = "ended" THEN FALSE
    ELSE IF w.ending_forced THEN FALSE
    ELSE IF actions # <<>> /\ HasEndModule(actions) THEN FALSE
    ELSE _all_players_inactive(w.players, online_ids)

(* _maybe_add_death_or_madness: the world with the tag added, and the      *)
(* entry (has = FALSE for None)                                            *)
NoEntry(w) == [w |-> w, has |-> FALSE]
_maybe_add_death_or_madness(w, action) ==
    LET params == action.parameters
    IN  IF "player_id" \notin DOMAIN params \/ params.player_id = "" THEN NoEntry(w)
        ELSE IF params.player_id \notin DOMAIN w.players THEN NoEntry(w)
        ELSE
          LET pid == params.player_id
              statuses == w.players[pid].statuses
              hp == StatOf(w.players, pid, "hp")
              san == StatOf(w.players, pid, "san")
          IN  IF hp > 0 /\ san > 0 THEN NoEntry(w)
              ELSE IF hp <= 0 THEN
                IF InList(statuses, "dead") THEN NoEntry(w)
                ELSE [w |-> [w EXCEPT !.players[pid].statuses = Append(statuses, "dead")],
                      has |-> TRUE, entry |-> DeathEntry(pid)]
              ELSE
                IF InList(statuses, "insane") THEN NoEntry(w)
                ELSE [w |-> [w EXCEPT !.players[pid].statuses = Append(statuses, "insane")],
                      has |-> TRUE, entry |-> MadnessEntry(pid)]

(* how often a stat of p dropped to 0 or below between two world states *)
Dropped(before, after, p, stat) ==
    IF StatOf(before, p, stat) > 0 /\ StatOf(after, p, stat) <= 0 THEN 1 ELSE 0

CountDrops(w, before, after) ==
    [w EXCEPT !.hp_drops = [p \in DOMAIN @ |-> @[p] + Dropped(before, after, p, "hp")],
              !.san_drops = [p \in DOMAIN @ |-> @[p] + Dropped(before, after, p, "san")]]

(***************************************************************************)
(* The narration pipeline.  The operators below return a result record     *)
(*   [w, entries, err, calls]                                              *)
(* w: the world the call leaves behind; entries: the list the call has     *)
(* built (what it returns when err = ""); err: the exception that          *)
(* propagates out of it; calls: how many oracle replies have been          *)
(* consumed.                                                               *)
(*                                                                         *)
(* replies is the sequence of replies the oracle gives to the successive   *)
(* keeper.generate calls; a reply is [raise, output], raise the message of *)
(* the raised exception, "" when generate returns output.                  *)
(***************************************************************************)
Result(w, entries, err, calls) == [w |-> w, entries |-> entries, err |-> err, calls |-> calls]

RECURSIVE _handle_keeper_output(_, _, _, _, _)
RECURSIVE ApplyLoop(_, _, _, _, _, _)

(* _force_ending, lines 809-829 *)
_force_ending(w, replies, rnd, calls) ==
    IF replies[calls + 1].raise # NoExc
    THEN Result([w EXCEPT !.ending_forced = TRUE], <<>>, replies[calls + 1].raise, calls + 1)
    ELSE _handle_keeper_output([w EXCEPT !.ending_forced = TRUE], replies[calls + 1].output,
                               replies, rnd, calls + 1)

(* lines 408-409: f is what the nested _force_ending did; entries is the   *)
(* list built so far                                                       *)
AfterForcedEnding(f, actions, replies, rnd, entries) ==
    IF f.err # NoExc THEN Result(f.w, entries, f.err, f.calls)
    ELSE ApplyLoop(f.w, Tail(actions), replies, rnd, entries \o f.entries, f.calls)

(* lines 404-409: w has the death or madness entry recorded *)
AfterDeathEntry(w, actions, replies, rnd, entries, calls) ==
    IF ~_should_force_ending(w, <<>>, w.last_online_ids)
    THEN ApplyLoop(w, Tail(actions), replies, rnd, entries, calls)
    ELSE AfterForcedEnding(_force_ending(w, replies, rnd, calls), actions, replies, rnd,
                           entries)

(* lines 403-409: m is what _maybe_add_death_or_madness returned, w the    *)
(* world with the action entry recorded                                    *)
AfterDeathCheck(m, w, actions, replies, rnd, entries, calls) ==
    IF ~m.has THEN ApplyLoop(w, Tail(actions), replies, rnd, entries, calls)
    ELSE AfterDeathEntry(Record(m.w, m.entry), actions, replies, rnd,
                         Append(entries, m.entry), calls)

(* lines 390-403: the action entry of the dispatched action *)
AfterActionEntry(w, entry, actions, replies, rnd, entries, calls) ==
    AfterDeathCheck(_maybe_add_death_or_madness(Record(w, entry), Head(actions)),
                    Record(w, entry), actions, replies, rnd, Append(entries, entry), calls)

(* lines 383-401: d is what dispatch_action did *)
AfterDispatch(d, w, actions, replies, rnd, entries, calls) ==
    IF d.err # NoExc THEN Result([w EXCEPT !.players = d.players], entries, d.err, calls)
    ELSE AfterActionEntry(CountDrops([w EXCEPT !.players = d.players], w.players, d.players),
                          ActionEntry(Head(actions), d.diff),
                          actions, replies, rnd, entries, calls)

(* lines 374-382: e is what end_session did *)
AfterEndModule(e, actions, replies, rnd, entries, calls) ==
    ApplyLoop(e.w, Tail(actions), replies, rnd, Append(entries, e.entry), calls)

(* the loop of _apply_actions, lines 373-409 *)
ApplyLoop(w, actions, replies, rnd, entries, calls) ==
    IF actions = <<>> THEN Result(w, entries, NoExc, calls)
    ELSE IF Head(actions).function_name = "end_module"
    THEN AfterEndModule(EndSessionIn(w, Get(Head(actions).parameters, "ending_id", ""),
                                     Get(Head(actions).parameters, "description", ""), ""),
                        actions, replies, rnd, entries, calls)
    ELSE AfterDispatch(dispatch_action(Head(actions), w.players, rnd),
                       w, actions, replies, rnd, entries, calls)

(* _apply_actions, lines 368-414 *)
_apply_actions(w, actions, replies, rnd, calls) ==
    ApplyLoop(w, actions, replies, rnd, <<>>, calls)

(* line 292: entries.extend(self._apply_actions(...)) after the narration *)
ExtendAfter(entry, a) == [a EXCEPT !.entries = <<entry>> \o @]

(* the handling that records the narration after the entries of its        *)
(* actions                                                                 *)
HandleValidatedNarrationLast(w, output, errors, replies, rnd, calls) ==
    IF errors # <<>>
    THEN Result(Record(w, InvalidOutputEntry(errors)), <<InvalidOutputEntry(errors)>>,
                NoExc, calls)
    ELSE [_apply_actions(w, output.actions, replies, rnd, calls)
            EXCEPT !.w = Record(@, NarrationEntry(output)),
                   !.entries = Append(@, NarrationEntry(output))]

(* lines 258-292: output has its visible_to forced, errors is what         *)
(* validate_keeper_output found                                            *)
HandleValidated(w, output, errors, replies, rnd, calls) ==
    IF errors # <<>>
    THEN Result(Record(w, InvalidOutputEntry(errors)), <<InvalidOutputEntry(errors)>>,
                NoExc, calls)
    ELSE IF output.actions = <<>>
    THEN Result(Record(w, NarrationEntry(output)), <<NarrationEntry(output)>>, NoExc, calls)
    ELSE ExtendAfter(NarrationEntry(output),
                     _apply_actions(Record(w, NarrationEntry(output)), output.actions,
                                    replies, rnd, calls))

(* lines 256-257: a public output is shown to everyone *)
ForcePublic(output) ==
    [output EXCEPT !.visible_to = IF output.message_type = "public" THEN <<"all">> ELSE @]

(* _handle_keeper_output, lines 254-292 *)
_handle_keeper_output(w, output, replies, rnd, calls) ==
    HandleValidated(w, ForcePublic(output), validate_keeper_output(ForcePublic(output)),
                    replies, rnd, calls)

(* the message of the exception httpx raises on a read timeout *)
TimeoutMsg == "The read operation timed out"
(* the test written as an equality with the words looked for *)
IsTimeoutExact(msg) == msg = "timed out"

(* line 221: "timed out" in msg.lower() *)
IsTimeout(msg) == msg = TimeoutMsg

(***************************************************************************)
(* handle_player_action, lines 139-252, with _followup_after_actions,      *)
(* lines 309-365.  One invocation is a pipeline; c is its frame            *)
(*   [pc, player_id, online_ids, entries, actions, followups, all_entries, *)
(*    calls]                                                               *)
(* entries: the list handle_player_action is building; actions: the        *)
(* actions of the primary oracle output; all_entries: the list of          *)
(* _followup_after_actions; calls: the oracle calls of earlier steps.      *)
(* A step runs from the call, or from the wake-up after a sleep, to the    *)
(* next sleep or to the return, and yields the outcome                     *)
(*   [w, c, done, ret, calls]                                              *)
(* ret being the returned list when done.  The frame also counts what the  *)
(* follow-up loop has done: asked, its keeper.generate calls (line 334),   *)
(* and handled, the outputs it gave to _handle_keeper_output (line 358);   *)
(* the outcome reports the counts as turns.                                *)
(***************************************************************************)
Idle == [pc |-> "idle", player_id |-> "", online_ids |-> {}, entries |-> <<>>,
         actions |-> <<>>, followups |-> 0, all_entries |-> <<>>, calls |-> 0,
         asked |-> 0, handled |-> 0]

Turns(c) == [followups |-> c.followups, asked |-> c.asked, handled |-> c.handled]
NoTurns == Turns(Idle)

Returned(w, ret, calls) ==
    [w |-> w, c |-> Idle, done |-> TRUE, ret |-> ret, calls |-> calls, turns |-> NoTurns]
(* the return of a call whose frame is c *)
ReturnedAfter(c, w, ret, calls) == [Returned(w, ret, calls) EXCEPT !.turns = Turns(c)]
Sleeping(w, c, pc, calls) ==
    [w |-> w, c |-> [c EXCEPT !.pc = pc, !.calls = @ + calls], done |-> FALSE,
     ret |-> <<>>, calls |-> calls, turns |-> Turns(c)]

(* the except clause of handle_player_action, lines 219-252 *)
OnKeeperException(w, c, msg, calls) ==
    IF IsTimeout(msg)
    THEN ReturnedAfter(c, Record(Record(w, TimeoutFillerEntry(msg)), KeeperFailedEntry(msg)),
                  c.entries \o <<TimeoutFillerEntry(msg), KeeperFailedEntry(msg)>>, calls)
    ELSE ReturnedAfter(c, Record(w, KeeperFailedEntry(msg)),
                  Append(c.entries, KeeperFailedEntry(msg)), calls)

(* lines 216-218 and the return: f is what _force_ending did *)
AfterForceEnding(f, c) ==
    IF f.err # NoExc THEN OnKeeperException(f.w, c, f.err, f.calls)
    ELSE ReturnedAfter(c, f.w, c.entries \o f.entries, f.calls)

(* lines 215-218 and the return: c.entries holds everything built so far *)
ForceCheckAndReturn(w, c, replies, rnd, calls) ==
    IF ~_should_force_ending(w, c.actions, c.online_ids)
    THEN ReturnedAfter(c, w, c.entries, calls)
    ELSE AfterForceEnding(_force_ending(w, replies, rnd, calls), c)

(* _followup_after_actions returns all_entries; line 214 extends entries *)
FollowupReturns(w, c, replies, rnd, calls) ==
    ForceCheckAndReturn(w, [c EXCEPT !.entries = @ \o c.all_entries], replies, rnd, calls)

(* lines 358-364: h is what _handle_keeper_output did with the follow-up   *)
(* output                                                                  *)
AfterFollowupOutput(h, c, output, replies, rnd) ==
    IF h.err # NoExc THEN OnKeeperException(h.w, c, h.err, h.calls)
    ELSE IF output.actions = <<>> \/ h.w.phase = "ended"
    THEN FollowupReturns(h.w, [c EXCEPT !.all_entries = @ \o h.entries], replies, rnd,
                         h.calls)
    ELSE Sleeping(h.w, [c EXCEPT !.all_entries = @ \o h.entries], "cooldown", h.calls)

(* lines 332-364: one generate attempt; retry says whether a reply that    *)
(* could not be parsed is tried again after the 0.5 s sleep                *)
FollowupAttempt(w, c, reply, retry, replies, rnd, calls) ==
    IF reply.raise # NoExc
    THEN FollowupReturns(Record(w, FollowupFailedEntry),
                         [c EXCEPT !.all_entries = Append(@, FollowupFailedEntry)],
                         replies, rnd, calls)
    ELSE IF retry /\ reply.output.parse_error THEN Sleeping(w, c, "parse_retry", calls)
    ELSE AfterFollowupOutput(_handle_keeper_output(w, reply.output, replies, rnd, calls),
                             [c EXCEPT !.handled = @ + 1], reply.output, replies, rnd)

(* the loop head that does not look at the follow-up count *)
FollowupLoopUnbounded(w, c, replies, rnd, calls) ==
    IF ~_is_player_active(w.players, c.player_id)
    THEN FollowupReturns(w, c, replies, rnd, calls)
    ELSE FollowupAttempt(w, [c EXCEPT !.followups = @ + 1, !.asked = @ + 1],
                         replies[calls + 1], TRUE,
                         replies, rnd, calls + 1)

(* lines 320-354: the loop head and the first generate attempt *)
FollowupLoop(w, c, replies, rnd, calls) ==
    IF ~(c.followups < max_followups) \/ ~_is_player_active(w.players, c.player_id)
    THEN FollowupReturns(w, c, replies, rnd, calls)
    ELSE FollowupAttempt(w, [c EXCEPT !.followups = @ + 1, !.asked = @ + 1],
                         replies[calls + 1], TRUE,
                         replies, rnd, calls + 1)

(* lines 332-354, attempt 1: the generate call after the parse-retry sleep *)
FollowupRetry(w, c, replies, rnd, calls) ==
    FollowupAttempt(w, [c EXCEPT !.asked = @ + 1], replies[calls + 1], FALSE, replies, rnd,
                    calls + 1)

(* the default of the phase lookup taken to be "active" *)
PhaseOrActive(w) == IF w.phase = "unset" THEN "active" ELSE w.phase

(* line 152: current_state.get("phase", "lobby") *)
PhaseOrLobby(w) == IF w.phase = "unset" THEN "lobby" ELSE w.phase

(* the liveness guard that looks at hp alone *)
CannotActHpOnly(w, player_id) == StatOf(w.players, player_id, "hp") <= 0

(* lines 168-170: the liveness guard *)
CannotAct(w, player_id) ==
    StatOf(w.players, player_id, "hp") <= 0 \/ StatOf(w.players, player_id, "san") <= 0

(* lines 202-218: h is what _handle_keeper_output did with the primary     *)
(* output                                                                  *)
AfterPrimaryOutput(h, c, output, replies, rnd) ==
    IF h.err # NoExc THEN OnKeeperException(h.w, c, h.err, h.calls)
    ELSE IF /\ output.actions # <<>>
            /\ h.w.phase # "ended"
            /\ _is_player_active(h.w.players, c.player_id)
    THEN FollowupLoop(h.w, [c EXCEPT !.entries = @ \o h.entries, !.actions = output.actions],
                      replies, rnd, h.calls)
    ELSE ForceCheckAndReturn(h.w, [c EXCEPT !.entries = @ \o h.entries,
                                            !.actions = output.actions],
                             replies, rnd, h.calls)

(* lines 185-218: the echo entry and the primary oracle call; c is the     *)
(* frame with the echo entry                                               *)
PrimaryCall(w, c, reply, replies, rnd) ==
    IF reply.raise # NoExc THEN OnKeeperException(w, c, reply.raise, 1)
    ELSE AfterPrimaryOutput(_handle_keeper_output(w, reply.output, replies, rnd, 1),
                            c, reply.output, replies, rnd)

(* lines 152-184: the phase guard and the liveness guard; w has            *)
(* last_online_ids set                                                     *)
GuardedPlayerAction(w, player_id, online_ids, replies, rnd) ==
    IF PhaseOrLobby(w) # "active"
    THEN Returned(Record(w, NotStartedEntry(player_id)), <<NotStartedEntry(player_id)>>, 0)
    ELSE IF CannotAct(w, player_id)
    THEN Returned(Record(w, CannotActEntry(player_id)), <<CannotActEntry(player_id)>>, 0)
    ELSE PrimaryCall(Record(w, PlayerEntry(player_id)),
                     [Idle EXCEPT !.player_id = player_id, !.online_ids = online_ids,
                                  !.entries = <<PlayerEntry(player_id)>>],
                     replies[1], replies, rnd)

(* handle_player_action from the call to its first sleep or its return *)
StartPlayerAction(w0, player_id, online_ids, replies, rnd) ==
    GuardedPlayerAction([w0 EXCEPT !.last_online_ids = online_ids], player_id, online_ids,
                        replies, rnd)

(***************************************************************************)
(* Inputs of the model: the action calls and the oracle replies.           *)
(***************************************************************************)
ActionCall(fn, params) == [function_name |-> fn, parameters |-> params]

Damage(p, n) == ActionCall("apply_damage", [player_id |-> p, amount |-> n])
SanityChange(p, n) == ActionCall("apply_sanity_change", [player_id |-> p, amount |-> n])
EndModule(id) == ActionCall("end_module", [ending_id |-> id, description |-> "the end"])
RollCheck == ActionCall("roll_dice", [target |-> 50, actor_id |-> "p1"])

(* the batches of embedded actions the oracle chooses from *)
OracleBatches ==
    { <<>>,
      <<Damage("p1", MaxHp)>>, <<Damage("p2", MaxHp)>>,
      <<SanityChange("p1", -MaxSan)>>,
      <<RollCheck>>,
      <<EndModule("e1")>>,
      <<Damage(UnknownPlayer, 1)>>,
      <<Damage("p1", MaxHp), Damage("p1", -1)>>,
      <<Damage("p1", MaxHp), SanityChange("p1", -MaxSan)>>,
      <<EndModule("e1"), Damage("p2", 1)>>,
      <<Damage("p2", 1), Damage(UnknownPlayer, 1)>> }

KeeperOutput(message_type, visible_to, actions) ==
    [message_type |-> message_type, visible_to |-> visible_to, has_content |-> TRUE,
     actions |-> actions, parse_error |-> FALSE]

(* KeeperLLM.generate when the reply cannot be parsed, keeper_llm.py 54-63 *)
ParseErrorOutput ==
    [message_type |-> "system", visible_to |-> <<"all">>, has_content |-> TRUE,
     actions |-> <<>>, parse_error |-> TRUE]

QuietOutput == KeeperOutput("public", <<"all">>, <<>>)

(* the function names ActionCall accepts, models.py 36-45 *)
ActionCallKinds ==
    {"roll_dice", "apply_damage", "apply_sanity_change", "update_player_attribute",
     "add_status", "remove_status", "oppose_check", "end_module"}

(* the function names dispatch_action has a branch for, actions.py 118-189 *)
DispatcherKinds ==
    {"roll_dice", "oppose_check", "apply_damage", "apply_sanity_change",
     "update_player_attribute", "add_item", "add_clue", "add_status", "remove_status"}

(* KeeperLLM.generate, keeper_llm.py 24-63, on the JSON the oracle wrote:  *)
(* the construction of KeeperOutput raises when an action has a name      *)
(* ActionCall does not accept, and the parse-error output is returned      *)
generate(data) ==
    IF \A k \in 1..Len(data.actions) : data.actions[k].function_name \in ActionCallKinds
    THEN data ELSE ParseErrorOutput

OracleOutputs ==
    {KeeperOutput("public", <<"all">>, b) : b \in OracleBatches}
    \cup {KeeperOutput("secret", <<"p1">>, <<Damage("p2", 1)>>),
          KeeperOutput("secret", <<>>, <<Damage("p1", 1)>>),
          KeeperOutput("secret", <<"p1", "all">>, <<Damage("p1", 1)>>),
          KeeperOutput("system", <<>>, <<Damage("p1", 1)>>),
          KeeperOutput("public", <<"p1">>, <<>>),
          ParseErrorOutput}

Returns(output) == [raise |-> NoExc, output |-> output]
Raises(msg) == [raise |-> msg, output |-> QuietOutput]

QuietReply == Returns(QuietOutput)
OracleReplies ==
    {Returns(o) : o \in OracleOutputs} \cup {Raises(TimeoutMsg), Raises("LLM HTTP 500")}

(* no reply was asked for *)
NoReply == [raise |-> NoExc, output |-> <<>>]

(* the replies the oracle may give when b free replies are left *)
ReplySet(b) == IF b > 0 THEN OracleReplies ELSE {QuietReply}

(* the random draws of a dispatch *)
Draws == {[unit |-> 5, tens |-> <<4>>, unit2 |-> 0, tens2 |-> <<0>>, rolls |-> <<1>>]}

(* The outcomes of a step Run(replies) over the replies the oracle may     *)
(* give when b free replies are left: the k-th reply matters only when the *)
(* step makes a k-th call.  A step makes at most three calls: a follow-up  *)
(* call, the forced ending inside its _apply_actions, and none after it.   *)
(* An outcome is [out, input, tokens]: what the step did, the first reply   *)
(* it consumed (NoReply when it asked for none), and the usage it          *)
(* accumulated.                                                            *)
Used(o, replies) == [out |-> o, replies |-> SubSeq(replies, 1, o.calls)]

(* _accumulate_token_usage over the replies a step consumed: generate      *)
(* returned for those that did not raise, and each reports a usage of one  *)
(* prompt token and one completion token                                   *)
Generated(replies) == Cardinality({k \in 1..Len(replies) : replies[k].raise = NoExc})

ThirdReply(o, Run(_), b, r1, r2) ==
    IF o.calls <= 2 THEN {Used(o, <<r1, r2>>)}
    ELSE {Used(Run(<<r1, r2, r3>>), <<r1, r2, r3>>) : r3 \in ReplySet(b - 2)}

SecondReply(o, Run(_), b, r1) ==
    IF o.calls <= 1 THEN {Used(o, <<r1>>)}
    ELSE UNION {ThirdReply(Run(<<r1, r2, QuietReply>>), Run, b, r1, r2) : r2 \in ReplySet(b - 1)}

FirstReply(outs, r1) ==
    {[out |-> u.out, input |-> IF u.out.calls > 0 THEN r1 ELSE NoReply,
      tokens |-> Generated(u.replies)] : u \in outs}

Outcomes(Run(_), b) ==
    UNION {FirstReply(SecondReply(Run(<<r1, QuietReply, QuietReply>>), Run, b, r1), r1)
           : r1 \in ReplySet(b)}

(***************************************************************************)
(* State.                                                                  *)
(***************************************************************************)
VARIABLES
    players,          \* state.current_state["players"]
    phase,            \* state.current_state["phase"], "unset" when absent
    ending_forced,    \* state.current_state["ending_forced"]
    history_cache,    \* SessionManager.history_cache
    last_online_ids,  \* SessionManager.last_online_ids, as a set
    round_id,         \* SessionManager.round_id, as the number of ids issued
    pipe,             \* the frames of the handle_player_action invocations
    last,             \* the operation of the last step and what it returned
    hp_drops,         \* per player: times hp went from > 0 to <= 0
    san_drops,        \* per player: times san went from > 0 to <= 0
    budget,           \* free oracle replies left
    token_usage,      \* SessionManager.token_usage
    shared_findings,  \* state.current_state["shared_findings"]
    module            \* SessionManager.module

vars == <<players, phase, ending_forced, history_cache, last_online_ids, round_id,
          pipe, last, hp_drops, san_drops, budget, token_usage, shared_findings,
          module>>

Pipelines == {1, 2}

World == [players |-> players, phase |-> phase, ending_forced |-> ending_forced,
          history |-> history_cache, last_online_ids |-> last_online_ids,
          hp_drops |-> hp_drops, san_drops |-> san_drops, module |-> module]

SetWorld(w) ==
    /\ players' = w.players
    /\ phase' = w.phase
    /\ ending_forced' = w.ending_forced
    /\ history_cache' = w.history
    /\ last_online_ids' = w.last_online_ids
    /\ hp_drops' = w.hp_drops
    /\ san_drops' = w.san_drops

(* last: op, the operation the step belongs to; player_id, its caller;     *)
(* input, the first oracle reply the step consumed (for                    *)
(* handle_keeper_output: the output it was given); done, whether the       *)
(* operation returned or raised in this step; ret, the returned list; err, *)
(* the exception that reached the caller; calls, the oracle calls of the   *)
(* operation so far; turns, what its follow-up loop has done so far        *)
Event(op, player_id, input, done, ret, err, calls) ==
    [op |-> op, player_id |-> player_id, input |-> input, done |-> done, ret |-> ret,
     err |-> err, calls |-> calls, turns |-> NoTurns]

(* reset_token_usage, session.py 783-784 *)
NoUsage == [prompt_tokens |-> 0, completion_tokens |-> 0]

(* _accumulate_token_usage, session.py 778-781, n times *)
Accumulate(usage, n) ==
    [prompt_tokens |-> usage.prompt_tokens + n, completion_tokens |-> usage.completion_tokens + n]

NoFindings == [items |-> <<>>, clues |-> <<>>]

InitPlayers == [p \in Players |-> NewPlayer(MaxHp, MaxHp, MaxSan, MaxSan)]

Init ==
    /\ players = InitPlayers
    /\ phase \in {"unset", "lobby"}
    /\ ending_forced = FALSE
    /\ history_cache = <<>>
    /\ last_online_ids = {}
    /\ round_id = 0
    /\ pipe = [i \in Pipelines |-> Idle]
    /\ last = Event("init", "", NoReply, TRUE, <<>>, NoExc, 0)
    /\ hp_drops = [p \in Players |-> 0]
    /\ san_drops = [p \in Players |-> 0]
    /\ budget = MaxOracleBudget
    /\ token_usage = NoUsage
    /\ shared_findings = NoFindings
    /\ module = DefaultModule

(* a step of pipeline i, made for player_id, with outcome o *)
Commit(i, op, player_id, o) ==
    /\ SetWorld(o.out.w)
    /\ pipe' = [pipe EXCEPT ![i] = o.out.c]
    /\ budget' = Max(0, budget - o.out.calls)
    /\ last' = [Event(op, player_id, o.input, o.out.done, o.out.ret, NoExc,
                      pipe[i].calls + o.out.calls) EXCEPT !.turns = o.out.turns]
    /\ token_usage' = Accumulate(token_usage, o.tokens)
    /\ UNCHANGED <<round_id, shared_findings, module>>

(* websocket_endpoint, main.py 823-829: client.player_action *)
HandlePlayerActionWithin(i, player_id, online_ids, n) ==
    /\ pipe[i].pc = "idle"
    /\ Len(history_cache) < n
    /\ \E rnd \in Draws :
         \E o \in Outcomes(LAMBDA rs : StartPlayerAction(World, player_id, online_ids, rs, rnd),
                           budget) :
           Commit(i, "handle_player_action", player_id, o)

HandlePlayerAction(i, player_id, online_ids) ==
    HandlePlayerActionWithin(i, player_id, online_ids, MaxHistory)

(* the pipeline wakes from the follow-up cooldown, session.py 364 *)
WakeFromCooldown(i) ==
    /\ pipe[i].pc = "cooldown"
    /\ \E rnd \in Draws :
         \E o \in Outcomes(LAMBDA rs : FollowupLoop(World, pipe[i], rs, rnd, 0), budget) :
           Commit(i, "followup", pipe[i].player_id, o)

(* the pipeline wakes from the parse-retry sleep, session.py 352 *)
WakeFromParseRetry(i) ==
    /\ pipe[i].pc = "parse_retry"
    /\ \E rnd \in Draws :
         \E o \in Outcomes(LAMBDA rs : FollowupRetry(World, pipe[i], rs, rnd, 0), budget) :
           Commit(i, "followup_retry", pipe[i].player_id, o)

(* client.player_action when the oracle writes the JSON data; the oracle   *)
(* is quiet in the follow-up, which then ends the turn without a sleep     *)
OracleTurn(i, player_id, data) ==
    /\ pipe[i].pc = "idle"
    /\ Len(history_cache) < MaxHistory
    /\ \E rnd \in Draws :
         \E o \in FirstReply({Used(StartPlayerAction(World, player_id, {player_id},
                                                    <<Returns(generate(data)), QuietReply, QuietReply>>, rnd),
                                  <<Returns(generate(data)), QuietReply, QuietReply>>)},
                            [raise |-> NoExc, output |-> generate(data), data |-> data]) :
           Commit(i, "handle_player_action", player_id, o)

(* host_message, main.py 757-766: handle_keeper_output, whose exception    *)
(* nothing catches                                                         *)
HostMessage(output) ==
    /\ Len(history_cache) < MaxHistory
    /\ budget > 0
    /\ \E rnd \in Draws :
         \E r \in Outcomes(LAMBDA rs : _handle_keeper_output(World, output, rs, rnd, 0),
                           budget - 1) :
           /\ SetWorld(r.out.w)
           /\ budget' = Max(0, budget - 1 - r.out.calls)
           /\ last' = Event("handle_keeper_output", "", Returns(output), TRUE,
                            IF r.out.err = NoExc THEN r.out.entries ELSE <<>>,
                            r.out.err, r.out.calls)
           /\ token_usage' = Accumulate(token_usage, r.tokens)
           /\ UNCHANGED <<pipe, round_id, shared_findings, module>>

(* end_session of main.py 636-647 *)
EndSession(ending_id, description) ==
    /\ Len(history_cache) < MaxHistory
    /\ LET e == EndSessionIn(World, ending_id, description, "last keeper text")
       IN  /\ SetWorld(e.w)
           /\ last' = Event("end_session", "",
                            [ending_id |-> ending_id, description |-> description,
                             keeper_text |-> "last keeper text"],
                            TRUE, <<e.entry>>, NoExc, 0)
    /\ UNCHANGED <<pipe, round_id, budget, token_usage, shared_findings, module>>

(* status tags that start with a held-item or held-clue marker *)
HeldMarkerTags == {"held_item:lamp", "held_clue:map"}

(* the per-player part that leaves the clues in place *)
ResetPlayerKeepClues(pdata) ==
    LET stats == pdata.stats
        hp_max == Get(stats, "hp_max", Get(stats, "hp", 10))
        san_max == Get(stats, "san_max", Get(stats, "san", 60))
    IN  [pdata EXCEPT !.stats = Put(Put(stats, "hp", hp_max), "san", san_max),
                      !.items = <<>>,
                      !.statuses = SelectSeq(@, LAMBDA t : t \notin HeldMarkerTags)]

(* the per-player part of reset_session, lines 847-862 *)
ResetPlayer(pdata) ==
    LET stats == pdata.stats
        hp_max == Get(stats, "hp_max", Get(stats, "hp", 10))
        san_max == Get(stats, "san_max", Get(stats, "san", 60))
    IN  [pdata EXCEPT !.stats = Put(Put(stats, "hp", hp_max), "san", san_max),
                      !.items = <<>>,
                      !.clues = <<>>,
                      !.statuses = SelectSeq(@, LAMBDA t : t \notin HeldMarkerTags)]

(* reset_session, lines 831-873 *)
ResetSession ==
    /\ round_id < MaxRounds
    /\ history_cache' = <<>>
    /\ round_id' = round_id + 1
    /\ phase' = "lobby"
    /\ players' = [p \in DOMAIN players |-> ResetPlayer(players[p])]
    /\ last' = Event("reset_session", "", NoReply, TRUE, <<>>, NoExc, 0)
    /\ hp_drops' = [p \in Players |-> 0]
    /\ san_drops' = [p \in Players |-> 0]
    /\ token_usage' = NoUsage
    /\ shared_findings' = NoFindings
    /\ UNCHANGED <<ending_forced, last_online_ids, pipe, budget, module>>

(* start_session, main.py 598-633: a new SessionManager over a copy of the *)
(* current state, its phase set to active, and the entry narration         *)
StartSession ==
    /\ round_id < MaxRounds
    /\ phase' = "active"
    /\ round_id' = round_id + 1
    /\ last_online_ids' = {}
    /\ LET entry == HistoryEntry("keeper", "keeper", "keeper_narration", "public",
                                 <<"all">>, Text("entry_narration", ""), <<>>, <<>>)
       IN  /\ history_cache' = <<entry>>
           /\ last' = Event("start_session", "", NoReply, TRUE, <<entry>>, NoExc, 0)
    /\ hp_drops' = [p \in Players |-> 0]
    /\ san_drops' = [p \in Players |-> 0]
    /\ token_usage' = NoUsage
    /\ UNCHANGED <<players, ending_forced, pipe, budget, shared_findings, module>>

OnlineSets(player_id) == {S \in SUBSET Players : player_id \in S}

AllIdle == \A i \in Pipelines : pipe[i].pc = "idle"

(* one pipeline at a time, host operations between turns *)
Next ==
    \/ \E p \in Players : \E S \in OnlineSets(p) : HandlePlayerAction(1, p, S)
    \/ WakeFromCooldown(1)
    \/ WakeFromParseRetry(1)
    \/ AllIdle /\ \E o \in OracleOutputs : HostMessage(o)
    \/ AllIdle /\ \E id \in {"e1", "e9"} : EndSession(id, "host ends")
    \/ AllIdle /\ ResetSession
    \/ AllIdle /\ StartSession

Spec == Init /\ [][Next]_vars

(***************************************************************************)
(* Concurrent scheduling.  main.py holds no per-session lock: every        *)
(* websocket connection runs its own receive loop, so the pipelines of two *)
(* connections, and the host's HTTP operations, interleave at the sleeps   *)
(* of _followup_after_actions.  Pipeline i belongs to the connection of    *)
(* PlayerOf(i).  start_session replaces the SessionManager object, so it   *)
(* is taken between pipelines only.                                        *)
(***************************************************************************)
PlayerOf(i) == IF i = 1 THEN "p1" ELSE "p2"

NextConc ==
    \/ \E i \in Pipelines : \E S \in OnlineSets(PlayerOf(i)) :
           HandlePlayerAction(i, PlayerOf(i), S)
    \/ \E i \in Pipelines : WakeFromCooldown(i)
    \/ \E i \in Pipelines : WakeFromParseRetry(i)
    \/ \E o \in OracleOutputs : HostMessage(o)
    \/ \E id \in {"e1", "e9"} : EndSession(id, "host ends")
    \/ ResetSession
    \/ AllIdle /\ StartSession

(* the session after a snapshot saved before the first turn was loaded     *)
(* (load_snapshot, main.py 497-567): the phase is active and the history   *)
(* cache empty                                                             *)
InitConc ==
    /\ players = InitPlayers
    /\ phase = "active"
    /\ ending_forced = FALSE
    /\ history_cache = <<>>
    /\ last_online_ids = {}
    /\ round_id = 0
    /\ pipe = [i \in Pipelines |-> Idle]
    /\ last = Event("init", "", NoReply, TRUE, <<>>, NoExc, 0)
    /\ hp_drops = [p \in Players |-> 0]
    /\ san_drops = [p \in Players |-> 0]
    /\ budget = MaxOracleBudget
    /\ token_usage = NoUsage
    /\ shared_findings = NoFindings
    /\ module = DefaultModule

SpecConc == InitConc /\ [][NextConc]_vars

(***************************************************************************)
(* Turns whose output kills the last online player and ends the module in  *)
(* the same batch: p1 plays alone, and the host hands in narration outputs *)
(* between p1's turns.                                                     *)
(***************************************************************************)
EndingOutputs ==
    {KeeperOutput("public", <<"all">>, <<Damage("p1", MaxHp), EndModule("e1")>>),
     KeeperOutput("public", <<"all">>, <<Damage("p1", 1)>>),
     QuietOutput}

NextEndings ==
    \/ HandlePlayerAction(1, "p1", {"p1"})
    \/ WakeFromCooldown(1)
    \/ WakeFromParseRetry(1)
    \/ AllIdle /\ \E o \in EndingOutputs : HostMessage(o)

SpecEndings == InitConc /\ [][NextEndings]_vars

(***************************************************************************)
(* A session that starts active with every player unharmed and is never    *)
(* reset or ended by the host: player actions with any online list and     *)
(* host outputs, one at a time.  A player action may follow a host output  *)
(* that filled the history up to MaxHistory.                               *)
(***************************************************************************)
NextActive ==
    \/ \E p \in Players : \E S \in OnlineSets(p) :
           HandlePlayerActionWithin(1, p, S, MaxHistory + 1)
    \/ WakeFromCooldown(1)
    \/ WakeFromParseRetry(1)
    \/ AllIdle /\ \E o \in OracleOutputs : HostMessage(o)

SpecActive == InitConc /\ [][NextActive]_vars

(***************************************************************************)
(* The player actions of p1 on their own, with one free oracle reply more  *)
(* than MaxOracleBudget, so that the oracle can ask for a further turn     *)
(* after max_followups follow-ups.                                         *)
(***************************************************************************)
InitTurn ==
    /\ players = InitPlayers
    /\ phase = "active"
    /\ ending_forced = FALSE
    /\ history_cache = <<>>
    /\ last_online_ids = {}
    /\ round_id = 0
    /\ pipe = [i \in Pipelines |-> Idle]
    /\ last = Event("init", "", NoReply, TRUE, <<>>, NoExc, 0)
    /\ hp_drops = [p \in Players |-> 0]
    /\ san_drops = [p \in Players |-> 0]
    /\ budget = MaxOracleBudget + 1
    /\ token_usage = NoUsage
    /\ shared_findings = NoFindings
    /\ module = DefaultModule

NextTurn ==
    \/ \E S \in OnlineSets("p1") : HandlePlayerAction(1, "p1", S)
    \/ WakeFromCooldown(1)
    \/ WakeFromParseRetry(1)

(* asyncio.sleep returns when its delay is over (session.py 352, 364): a   *)
(* call that sleeps is woken.  This is WF_vars(Wake) for the wake-up       *)
(* Wake == WakeFromCooldown(1) \/ WakeFromParseRetry(1), with ENABLED      *)
(* <<Wake>>_vars written as the state predicate it amounts to: a wake-up   *)
(* has an outcome for every reply and always changes the frame, so it is   *)
(* enabled exactly when the frame sleeps.                                  *)
FairWake ==
    \/ []<>(pipe[1].pc \notin {"cooldown", "parse_retry"})
    \/ []<><<WakeFromCooldown(1) \/ WakeFromParseRetry(1)>>_vars

SpecTurn == InitTurn /\ [][NextTurn]_vars /\ FairWake

(***************************************************************************)
(* apply_damage and apply_sanity_change with every amount from -(MaxHp+1)  *)
(* to MaxHp+1, zero included, on character sheets as PlayerStats accepts   *)
(* them: the model checks no relation between hp and hp_max, so p1 may     *)
(* start with hp or san above its maximum.                                 *)
(***************************************************************************)
SheetPlayers ==
    {NewPlayer(x[1], x[2], x[3], x[4]) :
        x \in (0..(MaxHp + 1)) \X (1..MaxHp) \X (0..(MaxSan + 1)) \X (1..MaxSan)}

DamageMenu ==
    {Damage(p, n) : p \in Players, n \in (-(MaxHp + 1))..(MaxHp + 1)}
    \cup {SanityChange("p1", n) : n \in (-(MaxSan + 1))..(MaxSan + 1)}

InitDamage ==
    /\ players \in {ps \in [Players -> SheetPlayers] : ps["p2"] = InitPlayers["p2"]}
    /\ phase = "active"
    /\ ending_forced = FALSE
    /\ history_cache = <<>>
    /\ last_online_ids = {}
    /\ round_id = 0
    /\ pipe = [i \in Pipelines |-> Idle]
    /\ last = Event("init", "", NoReply, TRUE, <<>>, NoExc, 0)
    /\ hp_drops = [p \in Players |-> 0]
    /\ san_drops = [p \in Players |-> 0]
    /\ budget = 0
    /\ token_usage = NoUsage
    /\ shared_findings = NoFindings
    /\ module = DefaultModule

(***************************************************************************)
(* The dispatcher on its own: dispatch_action calls of every kind, failing *)
(* ones included, interleaved with reset_session, from the world states    *)
(* in which p1 is anywhere within the bounds and p2 is unharmed.           *)
(***************************************************************************)
WithinBounds(stats) ==
    /\ 0 <= stats.hp /\ stats.hp <= stats.hp_max
    /\ 0 <= stats.san /\ stats.san <= stats.san_max
    /\ stats.hp_max >= 1
    /\ stats.san_max >= 1

BoundedPlayers ==
    {NewPlayer(x[1], x[2], x[3], x[4]) :
        x \in {y \in (0..MaxHp) \X (1..MaxHp) \X (0..MaxSan) \X (1..MaxSan) :
                  y[1] <= y[2] /\ y[3] <= y[4]}}

Amounts == {-(MaxHp + 1), -1, 1, MaxHp + 1}

UpdateAttribute(p, attribute, delta) ==
    ActionCall("update_player_attribute",
               [player_id |-> p, attribute |-> attribute, delta |-> delta])

DispatchMenu ==
    {Damage(p, n) : p \in Players, n \in Amounts}
    \cup {SanityChange("p1", n) : n \in Amounts}
    \cup {UpdateAttribute("p1", <<a>>, n) : a \in {"hp", "san", "hp_max", "san_max"},
                                           n \in Amounts}
    \cup {Damage(UnknownPlayer, 1),
          UpdateAttribute("p1", <<"luck">>, 1), UpdateAttribute("p1", <<"str">>, 0),
          UpdateAttribute("p1", <<"skills", "occult">>, 1),
          UpdateAttribute("p1", <<"stats", "hp">>, 1),
          ActionCall("update_player_attribute", [player_id |-> "p1", attribute |-> <<"hp">>]),
          ActionCall("apply_damage", [player_id |-> "p1"]),
          ActionCall("apply_sanity_change", [amount |-> 1]),
          ActionCall("add_status", [player_id |-> "p1", status |-> "dead"]),
          ActionCall("remove_status", [player_id |-> "p1", status |-> "dead"]),
          ActionCall("add_item", [player_id |-> "p1", item |-> [str |-> TRUE, raw |-> ""]]),
          ActionCall("oppose_check", [attacker |-> [target |-> 50], defender |-> [target |-> 40]]),
          ActionCall("heal", [player_id |-> "p1", amount |-> 1]),
          RollCheck}

(* the values the model lets the unbounded numbers of a player grow to *)
Small(ps) ==
    \A p \in DOMAIN ps :
        /\ ps[p].stats.hp_max <= MaxHp
        /\ ps[p].stats.san_max <= MaxSan
        /\ ps[p].stats.luck <= 2
        /\ \A k \in DOMAIN ps[p].skills : ps[p].skills[k] <= 1

InitDispatch ==
    /\ players \in {ps \in [Players -> BoundedPlayers] : ps["p2"] = InitPlayers["p2"]}
    /\ phase = "active"
    /\ ending_forced = FALSE
    /\ history_cache = <<>>
    /\ last_online_ids = {}
    /\ round_id = 0
    /\ pipe = [i \in Pipelines |-> Idle]
    /\ last = Event("init", "", NoReply, TRUE, <<>>, NoExc, 0)
    /\ hp_drops = [p \in Players |-> 0]
    /\ san_drops = [p \in Players |-> 0]
    /\ budget = 0
    /\ token_usage = NoUsage
    /\ shared_findings = NoFindings
    /\ module = DefaultModule

(* d is what dispatch_action(action, ...) did; the call's exception        *)
(* reaches the caller                                                      *)
Dispatched(action, d) ==
    /\ Small(d.players)
    /\ players' = d.players
    /\ last' = Event("dispatch_action", "", action, TRUE, <<>>, d.err, 0)
    /\ UNCHANGED <<phase, ending_forced, history_cache, last_online_ids, round_id, pipe,
                   hp_drops, san_drops, budget, token_usage, shared_findings, module>>

Dispatch(action) ==
    \E rnd \in Draws : Dispatched(action, dispatch_action(action, players, rnd))

NextDispatch ==
    \/ \E action \in DispatchMenu : Dispatch(action)
    \/ ResetSession

SpecDispatch == InitDispatch /\ [][NextDispatch]_vars

(***************************************************************************)
(* update_player_attribute with the names of a skill, of a core attribute, *)
(* of derived stats, and with names no dict holds, each with a delta of    *)
(* -1 and of 1.                                                            *)
(***************************************************************************)
AttributeNames ==
    {<<"skills", "occult">>, <<"str">>, <<"luck">>, <<"hp">>, <<"san">>,
     <<"occult">>, <<"skills">>, <<"stats", "hp">>}

AttributeMenu ==
    {UpdateAttribute("p1", a, n) : a \in AttributeNames, n \in {-1, 1}}

(* how far below zero the model lets the unclamped numbers fall *)
Low(ps) ==
    \A p \in DOMAIN ps :
        /\ ps[p].stats.luck >= -1
        /\ ps[p].attributes.str >= -1
        /\ ps[p].attributes.str <= 2
        /\ \A k \in DOMAIN ps[p].skills : ps[p].skills[k] >= -1

NextAttributes ==
    \/ \E action \in AttributeMenu : Dispatch(action) /\ Low(players')

SpecAttributes == InitDispatch /\ [][NextAttributes]_vars

NextDamage ==
    \/ \E action \in DamageMenu : Dispatch(action)

SpecDamage == InitDamage /\ [][NextDamage]_vars

(***************************************************************************)
(* Findings: sequences of add_item and add_clue calls of the dispatcher on *)
(* players whose lists start empty or with one entry.                      *)
(***************************************************************************)
Str(raw) == [str |-> TRUE, raw |-> raw]
Dict(raw) == [str |-> FALSE, raw |-> raw]

(* the parameters of an add_item or add_clue call, key being item or clue  *)
FindingParams(key) ==
    LET plural == IF key = "item" THEN "items" ELSE "clues"
    IN  {[player_id |-> "p1"] @@ (key :> Str("lamp")),
         [player_id |-> "p1"] @@ (key :> Str("")),
         [player_id |-> "p1"] @@ (key :> Dict([name |-> "lamp", effect |-> "light"])),
         [player_id |-> "p1"] @@ (key :> Dict([description |-> "map", reveal |-> "door"])),
         [player_id |-> "p1"] @@ (plural :> <<Str("key"), Str("map"), Str("key")>>),
         [player_id |-> "p1"] @@ (plural :> <<Str("map"), Dict([id |-> "lamp"])>>) @@ (key :> Str("key")),
         [player_id |-> "p1", description |-> "key", details |-> "rusty"],
         [player_id |-> "p1"],
         [player_id |-> "p2"] @@ (key :> Str("lamp")),
         [player_id |-> UnknownPlayer] @@ (key :> Str("lamp"))}

(* every kind of parameters for the items, three of them for the clues *)
FindingsMenu ==
    {ActionCall("add_item", params) : params \in FindingParams("item")}
    \cup {ActionCall("add_clue", params) :
             params \in {q \in FindingParams("clue") : q.player_id = "p1" /\ DOMAIN q = {"player_id", "clue"} /\ ~q.clue.str}}
    \cup {ActionCall("add_clue", [player_id |-> "p1", clues |-> <<Str("key"), Str("map"), Str("key")>>])}

InitFindings ==
    /\ players \in {[InitPlayers EXCEPT !["p1"].items = it, !["p1"].clues = cl] :
                        it \in {<<>>, <<[description |-> "map"]>>},
                        cl \in {<<>>, <<[description |-> "lamp", reveal |-> "oil"]>>}}
    /\ phase = "active"
    /\ ending_forced = FALSE
    /\ history_cache = <<>>
    /\ last_online_ids = {}
    /\ round_id = 0
    /\ pipe = [i \in Pipelines |-> Idle]
    /\ last = Event("init", "", NoReply, TRUE, <<>>, NoExc, 0)
    /\ hp_drops = [p \in Players |-> 0]
    /\ san_drops = [p \in Players |-> 0]
    /\ budget = 0
    /\ token_usage = NoUsage
    /\ shared_findings = NoFindings
    /\ module = DefaultModule

NextFindings ==
    \/ \E action \in FindingsMenu : Dispatch(action)

SpecFindings == InitFindings /\ [][NextFindings]_vars

(***************************************************************************)
(* Status tags: sequences of add_status and remove_status calls of the     *)
(* dispatcher on players whose lists start without a tag twice.            *)
(***************************************************************************)
StatusTags == {"cursed", "blessed", "dead"}

StatusMenu ==
    {ActionCall(fn, [player_id |-> p, status |-> tag]) :
        fn \in {"add_status", "remove_status"}, p \in {"p1"}, tag \in StatusTags}
    \cup {ActionCall("add_status", [player_id |-> "p2", status |-> "cursed"]),
          ActionCall("remove_status", [player_id |-> UnknownPlayer, status |-> "cursed"]),
          ActionCall("add_status", [player_id |-> "p1"])}

InitStatuses ==
    /\ players \in {[InitPlayers EXCEPT !["p1"].statuses = st] :
                        st \in {<<>>, <<"dead">>, <<"blessed", "cursed">>}}
    /\ phase = "active"
    /\ ending_forced = FALSE
    /\ history_cache = <<>>
    /\ last_online_ids = {}
    /\ round_id = 0
    /\ pipe = [i \in Pipelines |-> Idle]
    /\ last = Event("init", "", NoReply, TRUE, <<>>, NoExc, 0)
    /\ hp_drops = [p \in Players |-> 0]
    /\ san_drops = [p \in Players |-> 0]
    /\ budget = 0
    /\ token_usage = NoUsage
    /\ shared_findings = NoFindings
    /\ module = DefaultModule

NextStatuses ==
    \/ \E action \in StatusMenu : Dispatch(action)

SpecStatuses == InitStatuses /\ [][NextStatuses]_vars

(***************************************************************************)
(* A loaded save: load_snapshot (main.py 494-586) installs the saved       *)
(* current_state, whose player records carry the items, clues, status tags *)
(* and skills of the saved game, sets the phase to active and installs the *)
(* saved history.  Turns, end_session and reset_session follow.            *)
(***************************************************************************)
SavedStatuses == {<<>>, <<"held_item:lamp">>, <<"held_item:lamp", "dead", "held_clue:map">>}

SavedPlayer(hp, san, statuses, items, clues, skills) ==
    [NewPlayer(hp, MaxHp, san, MaxSan) EXCEPT !.statuses = statuses, !.items = items, !.clues = clues, !.skills = skills]

SavedPlayers ==
    {pl \in {SavedPlayer(hp, san, st, it, cl, sk) :
        hp \in {0, 1, MaxHp}, san \in {1, MaxSan}, st \in SavedStatuses,
        it \in {<<>>, <<[description |-> "lamp"]>>},
        cl \in {<<>>, <<[description |-> "map"], [description |-> "key", reveal |-> "door"]>>},
        sk \in {<<>>, [occult |-> 1]}} : InList(pl.statuses, "dead") <=> pl.stats.hp = 0}

(* the module of the loaded save, main.py 519: with or without triggers *)
SavedModules == {DefaultModule, [DefaultModule EXCEPT !.ending_triggers = <<>>]}

SavedFindings == [items |-> <<[description |-> "lamp"]>>, clues |-> <<>>]

InitSnapshot ==
    /\ players \in {ps \in [Players -> SavedPlayers] : ps["p2"] = InitPlayers["p2"]}
    /\ phase = "active"
    /\ ending_forced = FALSE
    /\ history_cache \in {<<>>, <<PlayerEntry("p1")>>}
    /\ last_online_ids = {}
    /\ round_id = 0
    /\ pipe = [i \in Pipelines |-> Idle]
    /\ last = Event("init", "", NoReply, TRUE, <<>>, NoExc, 0)
    /\ hp_drops = [p \in Players |-> 0]
    /\ san_drops = [p \in Players |-> 0]
    /\ budget = 0
    /\ token_usage = NoUsage
    /\ shared_findings \in {NoFindings, SavedFindings}
    /\ module \in SavedModules

NextSnapshot ==
    \/ \E p \in Players : HandlePlayerAction(1, p, {p})
    \/ \E id \in {"e1", "e2", "e9"}, description \in {"host ends", ""} : EndSession(id, description)
    \/ ResetSession

SpecSnapshot == InitSnapshot /\ [][NextSnapshot]_vars

(***************************************************************************)
(* A started session in which the oracle writes outputs that carry one     *)
(* operation of each kind the narration contract lists.                    *)
(***************************************************************************)
ListedKinds ==
    {"roll_dice", "apply_damage", "apply_sanity_change", "update_player_attribute",
     "add_status", "remove_status", "add_item", "add_clue", "oppose_check", "end_module"}

KindCall(kind, p) ==
    CASE kind = "roll_dice" -> RollCheck
      [] kind = "apply_damage" -> Damage(p, 1)
      [] kind = "apply_sanity_change" -> SanityChange(p, -1)
      [] kind = "update_player_attribute" -> UpdateAttribute(p, <<"luck">>, 1)
      [] kind = "add_status" -> ActionCall("add_status", [player_id |-> p, status |-> "cursed"])
      [] kind = "remove_status" -> ActionCall("remove_status", [player_id |-> p, status |-> "cursed"])
      [] kind = "add_item" -> ActionCall("add_item", [player_id |-> p, item |-> [str |-> TRUE, raw |-> "lamp"]])
      [] kind = "add_clue" -> ActionCall("add_clue", [player_id |-> p, clue |-> [str |-> TRUE, raw |-> "map"]])
      [] kind = "oppose_check" -> ActionCall("oppose_check", [attacker |-> [target |-> 50], defender |-> [target |-> 40]])
      [] kind = "end_module" -> EndModule("e1")

OracleData == {KeeperOutput("public", <<"all">>, <<KindCall(kind, p)>>) : kind \in ListedKinds, p \in Players}

InitKinds ==
    /\ players = InitPlayers
    /\ phase = "active"
    /\ ending_forced = FALSE
    /\ history_cache = <<>>
    /\ last_online_ids = {}
    /\ round_id = 0
    /\ pipe = [i \in Pipelines |-> Idle]
    /\ last = Event("init", "", NoReply, TRUE, <<>>, NoExc, 0)
    /\ hp_drops = [p \in Players |-> 0]
    /\ san_drops = [p \in Players |-> 0]
    /\ budget = 0
    /\ token_usage = NoUsage
    /\ shared_findings = NoFindings
    /\ module = DefaultModule

NextKinds ==
    \/ \E p \in Players, data \in OracleData : OracleTurn(1, p, data)
    \/ AllIdle /\ ResetSession
    \/ AllIdle /\ StartSession

SpecKinds == InitKinds /\ [][NextKinds]_vars

(***************************************************************************)
(* The pure functions of visibility.py and actions.py, each applied to     *)
(* inputs drawn from a bounded set, one call in a behaviour.  The session  *)
(* does not change; last holds the call: its inputs and what it returned   *)
(* or raised.                                                              *)
(***************************************************************************)
InitPure ==
    /\ players = InitPlayers
    /\ phase = "lobby"
    /\ ending_forced = FALSE
    /\ history_cache = <<>>
    /\ last_online_ids = {}
    /\ round_id = 0
    /\ pipe = [i \in Pipelines |-> Idle]
    /\ last = Event("init", "", NoReply, TRUE, <<>>, NoExc, 0)
    /\ hp_drops = [p \in Players |-> 0]
    /\ san_drops = [p \in Players |-> 0]
    /\ budget = 0
    /\ token_usage = NoUsage
    /\ shared_findings = NoFindings
    /\ module = DefaultModule

Applied(op, viewer_id, input, ret, err) ==
    /\ last' = Event(op, viewer_id, input, TRUE, ret, err, 0)
    /\ UNCHANGED <<players, phase, ending_forced, history_cache, last_online_ids, round_id,
                   pipe, hp_drops, san_drops, budget, token_usage, shared_findings, module>>

(* the entries is_visible is asked about: every message type with every   *)
(* kind of visible_to                                                      *)
VisibleToLists == {<<>>, <<"all">>, <<"p1">>, <<"p2">>, <<"p1", "p2">>, <<"p2", "all">>}

FilteredEntries ==
    {HistoryEntry("keeper", "keeper", "narration", mt, vis, Text("narration", ""), <<>>, <<>>) :
        mt \in {"public", "secret", "system"}, vis \in VisibleToLists}

ViewerIds == {"p1", "p2", "p3", "host"}
ViewerRoles == {"player", "host"}

IsVisible(entry, viewer_id, viewer_role) ==
    Applied("is_visible", viewer_id, [entry |-> entry, role |-> viewer_role],
            [visible |-> is_visible(entry, viewer_id, viewer_role),
             filtered |-> filter_history(<<entry, entry>>, viewer_id, viewer_role)], NoExc)

(* Player records as PlayerProfile.model_dump gives them, with the items   *)
(* and clues a saved state adds.  shown: hp and whether the stats hold     *)
(* hp_max; hidden: the fields no other player is meant to see.             *)
PlainHidden == [skills |-> <<>>, statuses |-> <<>>, items |-> <<>>, clues |-> <<>>, attributes |-> [str |-> 1], luck |-> 1, profession |-> "doctor"]

HiddenParts ==
    {PlainHidden, [PlainHidden EXCEPT !.skills = [occult |-> 1]],
     [PlainHidden EXCEPT !.statuses = <<"dead">>],
     [PlainHidden EXCEPT !.items = <<[description |-> "lamp"]>>],
     [PlainHidden EXCEPT !.clues = <<[description |-> "map"]>>],
     [PlainHidden EXCEPT !.attributes = [str |-> 2]],
     [PlainHidden EXCEPT !.luck = 2],
     [PlainHidden EXCEPT !.profession = "thief"]}

ProfileStats(hp, with_max, luck) ==
    IF with_max THEN [hp |-> hp, hp_max |-> 2, san |-> 1, san_max |-> 2, luck |-> luck]
    ELSE [hp |-> hp, san |-> 1, san_max |-> 2, luck |-> luck]

Profile(pid, hp, with_max, hidden) ==
    [player_id |-> pid, name |-> pid, color |-> "red", profession |-> hidden.profession,
     attributes |-> hidden.attributes, stats |-> ProfileStats(hp, with_max, hidden.luck),
     skills |-> hidden.skills, statuses |-> hidden.statuses, items |-> hidden.items,
     clues |-> hidden.clues]

Profiles(pid, parts) == {Profile(pid, hp, with_max, hidden) : hp \in {1, 2}, with_max \in BOOLEAN, hidden \in parts}

(* current_state: the players and the rest; one of the two players has     *)
(* every hidden part, the other one two of them                            *)
FewParts == {PlainHidden, [PlainHidden EXCEPT !.items = <<[description |-> "lamp"]>>]}

StatesOf(parts1, parts2) ==
    {[players |-> [p \in Players |-> IF p = "p1" THEN r1 ELSE r2], phase |-> "active",
      shared_findings |-> NoFindings] : r1 \in Profiles("p1", parts1), r2 \in Profiles("p2", parts2)}

CurrentStates == StatesOf(FewParts, HiddenParts) \cup StatesOf(HiddenParts, FewParts)

FilterState(state, viewer_id, viewer_role) ==
    Applied("filter_state", viewer_id, [state |-> state, role |-> viewer_role],
            filter_state(state, viewer_id, viewer_role), NoExc)

(* the percentile range of targets and totals *)
Percentile == 1..100

CocSuccessLevel(roll, target) ==
    Applied("_coc_success_level", "", [roll |-> roll, target |-> target],
            _coc_success_level(roll, target), NoExc)

(* random.randint(0, 9) *)
Digit == 0..9

(* the bonus and penalty counts a caller may pass *)
DiceCounts == -1..2

(* the tens digits roll_coc_check draws are as many as tens_count *)
RollCocCheck(target, bonus_dice, penalty_dice, unit, tens) ==
    Applied("roll_coc_check", "",
            [target |-> target, bonus_dice |-> bonus_dice, penalty_dice |-> penalty_dice,
             unit |-> unit, tens |-> tens],
            roll_coc_check(target, bonus_dice, penalty_dice, unit, tens), NoExc)

(* the rolls _compare_opposed is given: results of roll_coc_check reduced  *)
(* to the keys it reads, a result with a level it does not know, and an    *)
(* empty dict                                                              *)
SuccessLevels == {"critical", "extreme_success", "hard_success", "regular_success", "failure", "fumble"}

ComparedRolls ==
    {[success_level |-> level, target |-> target, total |-> total] :
        level \in SuccessLevels \cup {"unknown"}, target \in {40, 50}, total \in {10, 20}}
    \cup {<<>>}

CompareOpposed(a, b) ==
    Applied("_compare_opposed", "", [a |-> a, b |-> b], _compare_opposed(a, b), NoExc)

(* the strings roll_dice_expression is given, each the list of its         *)
(* characters                                                              *)
DiceExpressions ==
    {<<"a", "b", "c">>,
     <<>>,
     <<"1", "d", "6">>,
     <<"2", "d", "6">>,
     <<"1", "d", "6", "+", "1">>,
     <<"2", "d", "6", "-", "1">>,
     <<"1", " ", "d", " ", "6">>,
     <<" ", "1", "d", "6", " ", "+", " ", "1">>,
     <<"1", "D", "6">>,
     <<"x", "1", "d", "6">>,
     <<"1", "d", "6", "x">>,
     <<"r", "o", "l", "l", " ", "1", "d", "6", " ", "n", "o", "w">>,
     <<"1", "d", "6", "+">>,
     <<"d", "6">>,
     <<"1", "d">>,
     <<"1", "6">>,
     <<"1", "d", "6", "+", "1", "+", "1">>,
     <<"1", "+", "1", "d", "6">>,
     <<"-", "1", "d", "6">>,
     <<"1", "d", "d", "6">>}

(* random.randint(1, sides) for each die: the model draws two dice         *)
DiceRolls == [1..2 -> 1..2]

RollDiceExpression(expr, rolls) ==
    Applied("roll_dice_expression", "", [expr |-> expr, rolls |-> rolls],
            roll_dice_expression(expr, rolls), roll_dice_expression(expr, rolls).err)

NextPure ==
    \/ last.op = "init" /\ \E expr \in DiceExpressions, rolls \in DiceRolls : RollDiceExpression(expr, rolls)
    \/ last.op = "init" /\ \E a \in ComparedRolls, b \in ComparedRolls : CompareOpposed(a, b)
    \/ last.op = "init" /\ \E bonus_dice \in DiceCounts, penalty_dice \in DiceCounts, unit \in Digit :
          \E tens \in [1..TensCount(bonus_dice, penalty_dice) -> Digit] :
            RollCocCheck(50, bonus_dice, penalty_dice, unit, tens)
    \/ last.op = "init" /\ \E roll \in Percentile, target \in Percentile : CocSuccessLevel(roll, target)
    \/ last.op = "init" /\ \E state \in CurrentStates, v \in ViewerIds, role \in ViewerRoles : FilterState(state, v, role)
    \/ last.op = "init" /\ \E entry \in FilteredEntries, v \in ViewerIds, role \in ViewerRoles : IsVisible(entry, v, role)

SpecPure == InitPure /\ [][NextPure]_vars

(***************************************************************************)
(* Properties.                                                             *)
(***************************************************************************)
Viewers == Players \cup {"p3"}

VisibleToAll(entry) ==
    /\ \A v \in Viewers : is_visible(entry, v, "player")
    /\ is_visible(entry, "host", "host")

HostOnly(entry) ==
    /\ \A v \in Viewers : ~is_visible(entry, v, "player")
    /\ is_visible(entry, "host", "host")

Count(entries, entry) == Cardinality({i \in 1..Len(entries) : entries[i] = entry})

(* the step is a call of handle_player_action, from the call to its first  *)
(* sleep or its return                                                     *)
CallsPlayerAction == last'.op = "handle_player_action"

(* C1: a call handle_player_action(p, text) made while the phase is not    *)
(* "active" (lobby, ended or unset) returns exactly one entry, of actor    *)
(* system and message type system and visible to [p]; it appends only that *)
(* entry to the history cache, asks the oracle nothing, and leaves every   *)
(* player record, the phase and ending_forced as they were.                *)
C1_BlockedOutsideActivePhase ==
    [][(CallsPlayerAction /\ phase # "active")
       => /\ last'.done /\ last'.err = NoExc
          /\ Len(last'.ret) = 1
          /\ last'.ret[1].actor_type = "system"
          /\ last'.ret[1].message_type = "system"
          /\ last'.ret[1].visible_to = <<last'.player_id>>
          /\ history_cache' = Append(history_cache, last'.ret[1])
          /\ last'.calls = 0
          /\ budget' = budget
          /\ players' = players
          /\ phase' = phase
          /\ ending_forced' = ending_forced]_vars

(* a call made after the session ended has returned the one notice *)
C1_Witness ==
    /\ last.op = "handle_player_action"
    /\ phase = "ended"
    /\ last.ret = <<NotStartedEntry(last.player_id)>>

(* C2: in phase "active" a call handle_player_action(p, text) by a player  *)
(* whose hp <= 0 or san <= 0 records exactly one system entry visible to   *)
(* [p] and no echo entry, asks the oracle nothing and changes no player    *)
(* record; so does every later call of p while hp or san stays <= 0.       *)
C2_IncapacitatedPlayerIsRejected ==
    [][(/\ CallsPlayerAction
        /\ phase = "active"
        /\ last'.player_id \in DOMAIN players
        /\ \/ players[last'.player_id].stats.hp <= 0
           \/ players[last'.player_id].stats.san <= 0)
       => /\ last'.done /\ last'.err = NoExc
          /\ Len(last'.ret) = 1
          /\ last'.ret[1].actor_type = "system"
          /\ last'.ret[1].message_type = "system"
          /\ last'.ret[1].visible_to = <<last'.player_id>>
          /\ history_cache' = Append(history_cache, last'.ret[1])
          /\ last'.calls = 0
          /\ budget' = budget
          /\ players' = players]_vars

(* a player with san 0 and hp above 0 has been rejected twice in a row *)
C2_Witness ==
    /\ last.op = "handle_player_action"
    /\ phase = "active"
    /\ players[last.player_id].stats.san = 0
    /\ players[last.player_id].stats.hp > 0
    /\ Len(history_cache) >= 2
    /\ last.ret = <<CannotActEntry(last.player_id)>>
    /\ history_cache[Len(history_cache) - 1] = CannotActEntry(last.player_id)
    /\ history_cache[Len(history_cache)] = CannotActEntry(last.player_id)

(* C3: from a world state in which every player has 0 <= hp <= hp_max,     *)
(* 0 <= san <= san_max, hp_max >= 1 and san_max >= 1, every player has so  *)
(* after any sequence of dispatch_action calls, failing ones included, and *)
(* reset_session calls.                                                    *)
C3_StatsStayWithinBounds == \A p \in DOMAIN players : WithinBounds(players[p].stats)

(* hp_max was lowered below the hp the player had, and hp followed it *)
C3_Witness ==
    /\ last.op = "dispatch_action"
    /\ last.err = NoExc
    /\ last.input = UpdateAttribute("p1", <<"hp_max">>, -1)
    /\ players["p1"].stats.hp_max = MaxHp - 1
    /\ players["p1"].stats.hp = MaxHp - 1

(* C4: the number of public death entries for p in the history cache       *)
(* equals the number of times p's hp went from above 0 to 0 or below, and  *)
(* the number of madness entries the number of such transitions of san.    *)
C4_OneNarrationPerOccurrence ==
    \A p \in Players :
        /\ Count(history_cache, DeathEntry(p)) = hp_drops[p]
        /\ Count(history_cache, MadnessEntry(p)) = san_drops[p]

IsActionEntry(entry) == entry.action_type \in {"state_update", "dice_roll"}
IsEndingEntry(entry) == entry.content = Text("module_ended", "")

(* C5: in the entries of one batch (one handle_keeper_output call that     *)
(* asked the oracle nothing), no action entry comes after the entry of an  *)
(* end_module action.                                                      *)
C5_EndModuleShortCircuits ==
    (last.op = "handle_keeper_output" /\ last.calls = 0 /\ last.err = NoExc)
    => \A i, j \in 1..Len(last.ret) :
           (i < j /\ IsEndingEntry(last.ret[i])) => ~IsActionEntry(last.ret[j])

(* the output breaks a structural visibility rule *)
BreaksVisibilityRule(output) ==
    \/ output.message_type = "secret" /\ output.visible_to = <<>>
    \/ output.message_type = "secret" /\ InList(output.visible_to, "all")
    \/ output.message_type = "system" /\ output.visible_to = <<>>

(* C6: processing an output that breaks a structural visibility rule       *)
(* records exactly one system entry visible to ["all"] that carries the    *)
(* error list, no narration entry and no action entry, and leaves every    *)
(* player record and the phase as they were.                               *)
C6_InvalidOutputIsRejected ==
    [][(last'.op = "handle_keeper_output" /\ BreaksVisibilityRule(last'.input.output))
       => /\ last'.err = NoExc
          /\ Len(last'.ret) = 1
          /\ last'.ret[1].actor_type = "system"
          /\ last'.ret[1].message_type = "system"
          /\ last'.ret[1].visible_to = <<"all">>
          /\ last'.ret[1].actions = <<>>
          /\ "validation_errors" \in DOMAIN last'.ret[1].state_diff
          /\ last'.ret[1].state_diff.validation_errors # <<>>
          /\ history_cache' = Append(history_cache, last'.ret[1])
          /\ last'.calls = 0
          /\ players' = players
          /\ phase' = phase]_vars

(* a secret output addressed to a player and to "all", with an embedded    *)
(* action, has been rejected                                               *)
C6_Witness ==
    /\ last.op = "handle_keeper_output"
    /\ last.input.output.message_type = "secret"
    /\ InList(last.input.output.visible_to, "all")
    /\ last.input.output.actions # <<>>
    /\ Len(last.ret) = 1
    /\ last.ret[1] = history_cache[Len(history_cache)]

(* C7: when every online player of an active session has hp <= 0 or        *)
(* san <= 0, the next call of handle_player_action has the phase ended     *)
(* when it returns.                                                        *)
C7_NextTurnForcesEnding ==
    [][(/\ CallsPlayerAction
        /\ last'.done
        /\ phase = "active"
        /\ _all_players_inactive(players, last_online_ids'))
       => phase' = "ended"]_vars

C9_NothingRaisesToTheTransport == last.err = NoExc

(* C10: while an invocation of handle_player_action is suspended at a      *)
(* sleep, between its guard step and its return, no step of another        *)
(* operation changes a player record, the phase or the history cache.      *)
C10_PipelinesAreMutuallyExclusive ==
    [][\A i \in Pipelines :
          (pipe[i].pc # "idle" /\ pipe'[i] = pipe[i])
          => /\ players' = players
             /\ phase' = phase
             /\ history_cache' = history_cache]_vars

(* C11: when reset_session completes, the history cache is empty, the      *)
(* round id is a new one, the phase is lobby, every player has hp = hp_max *)
(* and san = san_max, no items, no clues and no status tag with a held     *)
(* marker, the shared findings are empty and both usage counters are 0;    *)
(* attributes, skills, hp_max and san_max of every player are as before.   *)
C11_ResetRestoresTheLobby ==
    [][(last'.op = "reset_session")
       => /\ history_cache' = <<>>
          /\ round_id' # round_id
          /\ phase' = "lobby"
          /\ shared_findings' = [items |-> <<>>, clues |-> <<>>]
          /\ token_usage'.prompt_tokens = 0
          /\ token_usage'.completion_tokens = 0
          /\ DOMAIN players' = DOMAIN players
          /\ \A p \in DOMAIN players :
                /\ players'[p].stats.hp = players'[p].stats.hp_max
                /\ players'[p].stats.san = players'[p].stats.san_max
                /\ players'[p].items = <<>>
                /\ players'[p].clues = <<>>
                /\ \A i \in 1..Len(players'[p].statuses) :
                       players'[p].statuses[i] \notin HeldMarkerTags
                /\ players'[p].attributes = players[p].attributes
                /\ players'[p].skills = players[p].skills
                /\ players'[p].stats.hp_max = players[p].stats.hp_max
                /\ players'[p].stats.san_max = players[p].stats.san_max]_vars

(* a reset after a turn of a loaded save: the dead player is back at full  *)
(* hp, the held markers are gone and the dead tag is kept                  *)
C11_Witness ==
    /\ last.op = "reset_session"
    /\ players["p1"].statuses = <<"dead">>
    /\ players["p1"].stats.hp = MaxHp
    /\ players["p1"].skills = [occult |-> 1]
    /\ round_id = 1

(* C12: end_session, called in any phase, leaves the phase "ended" and     *)
(* appends exactly one entry: public, visible to all, its diff holding the *)
(* ending id, the description, the keeper text and the conditions, which   *)
(* are the text of the catalogue ending of that id when that text is not   *)
(* empty, else the generic triggers, else empty.                           *)
C12_EndSessionRecordsTheEnding ==
    [][last'.op = "end_session"
       => LET named == {i \in 1..Len(module.possible_endings) :
                           /\ module.possible_endings[i].ending_id = last'.input.ending_id
                           /\ module.possible_endings[i].conditions # ""}
              expected == IF named # {}
                          THEN <<module.possible_endings[CHOOSE i \in named : TRUE].conditions>>
                          ELSE module.ending_triggers
              entry == history_cache'[Len(history_cache')]
          IN  /\ phase' = "ended"
              /\ Len(history_cache') = Len(history_cache) + 1
              /\ SubSeq(history_cache', 1, Len(history_cache)) = history_cache
              /\ last'.ret = <<entry>>
              /\ entry.message_type = "public"
              /\ entry.visible_to = <<"all">>
              /\ entry.state_diff = [ending_id |-> last'.input.ending_id,
                                     description |-> last'.input.description,
                                     keeper_text |-> last'.input.keeper_text,
                                     conditions |-> expected]]_vars

C12_Witness ==
    /\ last.op = "end_session"
    /\ last.input.ending_id = "e2"
    /\ module = DefaultModule
    /\ phase = "ended"
    /\ Len(history_cache) = 2
    /\ IsEndingEntry(history_cache[1])
    /\ history_cache[2].state_diff.conditions = ModuleEndingTriggers

(* C13: is_visible(entry, viewer, role) is true exactly when the entry is  *)
(* public, or the role is host, or "all" is in visible_to, or the viewer   *)
(* is in visible_to; filter_history keeps exactly the visible entries.  A  *)
(* secret entry for p1 alone is seen by p1 and by any host and not by p2.  *)
C13_VisibilityRule ==
    last.op = "is_visible"
    => LET entry == last.input.entry
           role == last.input.role
           viewer == last.player_id
           listed(x) == \E i \in 1..Len(entry.visible_to) : entry.visible_to[i] = x
       IN  /\ last.ret.visible
               <=> (entry.message_type = "public" \/ role = "host" \/ listed("all") \/ listed(viewer))
           /\ last.ret.filtered = (IF last.ret.visible THEN <<entry, entry>> ELSE <<>>)
           /\ (entry.message_type = "secret" /\ entry.visible_to = <<"p1">>)
               => (last.ret.visible <=> (viewer = "p1" \/ role = "host"))

C13_Witness ==
    /\ last.op = "is_visible"
    /\ last.input.entry.message_type = "secret"
    /\ last.input.entry.visible_to = <<"p1">>
    /\ last.player_id = "p2"
    /\ last.input.role = "host"
    /\ last.ret.visible

(* what a record shows of the fields id, name, color, hp, hp_max, san and  *)
(* san_max                                                                 *)
Shown(pdata) ==
    <<pdata.player_id, pdata.name, pdata.color, pdata.stats.hp,
      "hp_max" \in DOMAIN pdata.stats, Get(pdata.stats, "hp_max", 0),
      pdata.stats.san, pdata.stats.san_max>>

(* two states that differ at most in the other fields of players other     *)
(* than the viewer                                                         *)
SameForViewer(s1, s2, viewer_id) ==
    /\ s1.phase = s2.phase
    /\ s1.shared_findings = s2.shared_findings
    /\ \A p \in Players : IF p = viewer_id THEN s1.players[p] = s2.players[p]
                          ELSE Shown(s1.players[p]) = Shown(s2.players[p])

(* C14: for a viewer who is not the host, filter_state gives the same      *)
(* result on any two states that differ only in the skills, items, clues,  *)
(* statuses, attributes and other unlisted fields of the other players,    *)
(* and the viewer's own record comes back unchanged.                       *)
C14_FilterStateIsNonInterfering ==
    (last.op = "filter_state" /\ last.input.role # "host")
    => /\ \A s2 \in CurrentStates :
              SameForViewer(last.input.state, s2, last.player_id)
              => filter_state(s2, last.player_id, last.input.role) = last.ret
       /\ last.player_id \in Players
           => last.ret.players[last.player_id] = last.input.state.players[last.player_id]

C14_Witness ==
    /\ last.op = "filter_state"
    /\ last.input.role = "player"
    /\ last.player_id = "p1"
    /\ last.input.state.players["p1"].items # <<>>
    /\ last.input.state.players["p2"].statuses = <<"dead">>
    /\ last.ret.players["p1"].items # <<>>
    /\ DOMAIN last.ret.players["p2"] = {"player_id", "name", "color", "stats"}

(* C15: an oracle output that carries an operation of any of the ten       *)
(* listed kinds reaches the orchestrator as it was written, and an         *)
(* add_item or add_clue for player p puts the finding in p's list; the     *)
(* kinds an ActionCall accepts are the kinds the dispatcher handles plus   *)
(* end_module.                                                             *)
C15_EveryListedKindIsApplied ==
    [][(last'.op = "handle_player_action" /\ "data" \in DOMAIN last'.input)
       => LET data == last'.input.data
              call == data.actions[1]
              pid == call.parameters.player_id
          IN  /\ last'.input.output = data
              /\ call.function_name = "add_item"
                  => \E k \in 1..Len(players'[pid].items) : players'[pid].items[k].description = "lamp"
              /\ call.function_name = "add_clue"
                  => \E k \in 1..Len(players'[pid].clues) : players'[pid].clues[k].description = "map"
              /\ call.function_name \in ActionCallKinds
                  <=> call.function_name \in DispatcherKinds \cup {"end_module"}]_vars

(* C16: for every target and total in 1..100 the success level is the      *)
(* first match of: total 1, critical; total >= 96 under a target below 50  *)
(* or total 100 under a target of 50 or more, fumble; total at most a      *)
(* fifth of the target (at least 1), extreme success; at most half of it   *)
(* (at least 1), hard success; at most the target, regular success;        *)
(* otherwise failure.                                                      *)
C16_SuccessLevelTable ==
    last.op = "_coc_success_level"
    => LET total == last.input.roll
           target == last.input.target
           fifth == IF target \div 5 < 1 THEN 1 ELSE target \div 5
           half == IF target \div 2 < 1 THEN 1 ELSE target \div 2
       IN  last.ret =
             CASE total = 1 -> "critical"
               [] total # 1 /\ ((target < 50 /\ total >= 96) \/ (target >= 50 /\ total = 100)) -> "fumble"
               [] OTHER -> IF total <= fifth THEN "extreme_success"
                           ELSE IF total <= half THEN "hard_success"
                           ELSE IF total <= target THEN "regular_success"
                           ELSE "failure"

C16_Witness ==
    /\ last.op = "_coc_success_level"
    /\ last.input.target = 50
    /\ last.input.roll = 96
    /\ last.ret = "failure"

(* C17: whatever the unit digit, the tens digits drawn and the bonus and   *)
(* penalty counts, the percentile total is in 1..100: ten times the        *)
(* chosen tens digit plus the unit, but 100 and never 0 when both are 0;   *)
(* the tens digits drawn are 1 + |bonus - penalty| many, one when the      *)
(* counts are equal; a negative count counts as 0.                         *)
C17_PercentileTotalInRange ==
    last.op = "roll_coc_check"
    => LET r == last.ret
           bonus == IF last.input.bonus_dice < 0 THEN 0 ELSE last.input.bonus_dice
           penalty == IF last.input.penalty_dice < 0 THEN 0 ELSE last.input.penalty_dice
           gap == IF bonus >= penalty THEN bonus - penalty ELSE penalty - bonus
       IN  /\ r.total \in 1..100
           /\ r.unit = last.input.unit
           /\ r.tens_rolls = last.input.tens
           /\ \E k \in 1..Len(r.tens_rolls) : r.tens_rolls[k] = r.tens
           /\ r.total = (IF r.tens = 0 /\ r.unit = 0 THEN 100 ELSE r.tens * 10 + r.unit)
           /\ Len(r.tens_rolls) = 1 + gap
           /\ bonus = penalty => Len(r.tens_rolls) = 1

C17_Witness ==
    /\ last.op = "roll_coc_check"
    /\ last.input.bonus_dice = 2
    /\ last.input.penalty_dice = 0
    /\ last.input.tens = <<3, 0, 7>>
    /\ last.input.unit = 0
    /\ last.ret.total = 100

(* the keys of a roll: success rank, target, roll total *)
OpposedKey(x) ==
    <<_success_rank(Get(x, "success_level", "failure")), Get(x, "target", 0), Get(x, "total", 0)>>

(* key k beats key l: the first of rank, target and total that differs is  *)
(* greater in k                                                            *)
KeyBeats(k, l) ==
    \/ k[1] > l[1]
    \/ k[1] = l[1] /\ k[2] > l[2]
    \/ k[1] = l[1] /\ k[2] = l[2] /\ k[3] > l[3]

(* C18: the opposed comparison is a total order on the keys: a tie exactly *)
(* when the three keys are equal; the attacker wins exactly when the       *)
(* defender wins the swapped comparison; a beats b and b beats c imply a   *)
(* beats c; and the rank decides before the target, the target before the  *)
(* roll total.                                                             *)
C18_OpposedComparisonIsATotalOrder ==
    last.op = "_compare_opposed"
    => LET a == last.input.a
           b == last.input.b
       IN  /\ last.ret \in {"attacker", "defender", "tie"}
           /\ last.ret = "tie" <=> OpposedKey(a) = OpposedKey(b)
           /\ last.ret = "attacker" <=> _compare_opposed(b, a) = "defender"
           /\ last.ret = "attacker" <=> KeyBeats(OpposedKey(a), OpposedKey(b))
           /\ \A c \in ComparedRolls :
                  (last.ret = "attacker" /\ _compare_opposed(b, c) = "attacker")
                  => _compare_opposed(a, c) = "attacker"

C18_Witness ==
    /\ last.op = "_compare_opposed"
    /\ last.input.a = [success_level |-> "hard_success", target |-> 40, total |-> 20]
    /\ last.input.b = [success_level |-> "hard_success", target |-> 40, total |-> 10]
    /\ last.ret = "attacker"

(* the characters s[i..j] are digits, at least one *)
AllDigits(s, i, j) == i <= j /\ \A k \in i..j : s[k] \in Digits

(* the whole of s is <count>d<sides>, or that followed by + or - and a     *)
(* modifier                                                                *)
IsWholeDiceForm(s) ==
    \E k \in 1..Len(s) :
        /\ AllDigits(s, 1, k - 1)
        /\ s[k] \in {"d", "D"}
        /\ \/ AllDigits(s, k + 1, Len(s))
           \/ \E m \in (k + 2)..Len(s) :
                  /\ AllDigits(s, k + 1, m - 1)
                  /\ s[m] \in {"+", "-"}
                  /\ AllDigits(s, m + 1, Len(s))

(* C19: roll_dice_expression accepts the strings that, without their       *)
(* blanks, are wholly of the form <count>d<sides> with an optional +n or   *)
(* -n, and no others: any other string fails with the invalid-expression   *)
(* error and rolls nothing.                                                *)
C19_OnlyWholeExpressionsAreAccepted ==
    last.op = "roll_dice_expression"
    => IF IsWholeDiceForm(SelectSeq(last.input.expr, LAMBDA c : c # " "))
       THEN last.err = NoExc
       ELSE last.err = "ValueError: Invalid dice expression" /\ "rolls" \notin DOMAIN last.ret

(* the descriptions of a list of findings, in order *)
Descriptions(list) == [k \in 1..Len(list) |-> list[k].description]

NoDuplicate(seq) == \A i, j \in 1..Len(seq) : seq[i] = seq[j] => i = j

(* the first position of v in seq, 0 when it is not there *)
FirstIndex(seq, v) ==
    IF \E i \in 1..Len(seq) : seq[i] = v
    THEN CHOOSE i \in 1..Len(seq) : seq[i] = v /\ \A j \in 1..(i - 1) : seq[j] # v
    ELSE 0

(* what an add_item or add_clue call made of the list old, given the       *)
(* descriptions it brought: no description twice, the old entries first    *)
(* and as they were, the new ones after them in the order they were first  *)
(* brought, and nothing new when every description was there already       *)
MergedInOrder(old, new, brought) ==
    /\ NoDuplicate(Descriptions(new))
    /\ Len(new) >= Len(old)
    /\ SubSeq(new, 1, Len(old)) = old
    /\ \A d \in {brought[k] : k \in 1..Len(brought)} : FirstIndex(Descriptions(new), d) > 0
    /\ \A i, j \in (Len(old) + 1)..Len(new) :
           /\ FirstIndex(brought, new[i].description) > 0
           /\ i < j => FirstIndex(brought, new[i].description) < FirstIndex(brought, new[j].description)
    /\ (\A k \in 1..Len(brought) : FirstIndex(Descriptions(old), brought[k]) > 0) => new = old

(* C20: after any sequence of add_item (add_clue) calls on a player whose  *)
(* list starts without duplicate descriptions, no two entries share a      *)
(* description, entries keep the order in which they were first seen, a    *)
(* finding whose description is present already changes nothing, and the   *)
(* same call made again changes nothing.                                   *)
C20_FindingsMergeIsIdempotent ==
    [][(last'.op = "dispatch_action" /\ last'.err = NoExc)
       => LET call == last'.input
              pid == call.parameters.player_id
              key == IF call.function_name = "add_item" THEN "item" ELSE "clue"
              brought == Descriptions(_extract_entries(call.parameters, key))
          IN  /\ IF key = "item"
                 THEN /\ MergedInOrder(players[pid].items, players'[pid].items, brought)
                      /\ players'[pid].clues = players[pid].clues
                 ELSE /\ MergedInOrder(players[pid].clues, players'[pid].clues, brought)
                      /\ players'[pid].items = players[pid].items
              /\ \A rnd \in Draws : dispatch_action(call, players', rnd).players = players']_vars

C20_Witness ==
    /\ last.op = "dispatch_action"
    /\ last.input.function_name = "add_item"
    /\ "items" \in DOMAIN last.input.parameters
    /\ "item" \in DOMAIN last.input.parameters
    /\ Descriptions(players["p1"].items) = <<"lamp", "map", "key">>
    /\ "effect" \in DOMAIN players["p1"].items[1]

(* C21: status tags are an insertion-ordered set.  add_status of a tag     *)
(* that is there and remove_status of a tag that is not both return and    *)
(* leave the list as it was; after any sequence of the two calls on a list *)
(* that started without a tag twice, no tag is there twice, an added tag   *)
(* goes to the end and the tags that remain keep their order.              *)
C21_StatusTagsAreAnOrderedSet ==
    [][(last'.op = "dispatch_action" /\ "status" \in DOMAIN last'.input.parameters
        /\ last'.input.parameters.player_id \in Players)
       => LET tag == last'.input.parameters.status
              old == players[last'.input.parameters.player_id].statuses
              new == players'[last'.input.parameters.player_id].statuses
              present == \E k \in 1..Len(old) : old[k] = tag
          IN  /\ last'.err = NoExc
              /\ \A i, j \in 1..Len(new) : new[i] = new[j] => i = j
              /\ IF last'.input.function_name = "add_status"
                 THEN new = (IF present THEN old ELSE old \o <<tag>>)
                 ELSE new = SelectSeq(old, LAMBDA t : t # tag)
              /\ \A p \in Players \ {last'.input.parameters.player_id} : players'[p] = players[p]]_vars

C21_Witness ==
    /\ last.op = "dispatch_action"
    /\ last.input = ActionCall("add_status", [player_id |-> "p1", status |-> "dead"])
    /\ players["p1"].statuses = <<"dead", "cursed">>
    /\ last.err = NoExc

(* C22: update_player_attribute on hp_max (san_max) with delta d sets the  *)
(* maximum to max(1, old maximum + d) and the paired value to the smaller  *)
(* of its old value and the new maximum: a maximum lowered below the value *)
(* pulls the value down, a raise leaves it; nothing else changes.          *)
C22_MaximumUpdateReclamps ==
    [][(/\ last'.op = "dispatch_action"
        /\ last'.err = NoExc
        /\ last'.input.function_name = "update_player_attribute"
        /\ last'.input.parameters.attribute \in {<<"hp_max">>, <<"san_max">>})
       => LET pid == last'.input.parameters.player_id
              d == last'.input.parameters.delta
              top == last'.input.parameters.attribute[1]
              cur == IF top = "hp_max" THEN "hp" ELSE "san"
              old == players[pid].stats
              new == players'[pid].stats
              raised == old[top] + d
              new_max == IF raised < 1 THEN 1 ELSE raised
          IN  /\ new[top] = new_max
              /\ new[cur] = (IF old[cur] < new_max THEN old[cur] ELSE new_max)
              /\ d > 0 => new[cur] = old[cur]
              /\ \A k \in DOMAIN old \ {top, cur} : new[k] = old[k]
              /\ DOMAIN new = DOMAIN old
              /\ players' = [players EXCEPT ![pid].stats = new]]_vars

(* the san maximum fell from 2 to 1 under a san of 2 *)
C22_Witness ==
    /\ last.op = "dispatch_action"
    /\ last.err = NoExc
    /\ last.input = UpdateAttribute("p1", <<"san_max">>, -1)
    /\ players["p1"].stats.san_max = 1
    /\ players["p1"].stats.san = 1
    /\ players["p1"].stats.hp = MaxHp

(* C23: for every integer amount, negative ones included, apply_damage     *)
(* sets hp to max(0, min(hp_max, hp - amount)) and apply_sanity_change     *)
(* sets san to max(0, min(san_max, san + amount)), leaving every other     *)
(* value alone; apply_damage with amount 0 applied again changes nothing   *)
(* more, and on a player within bounds it changes nothing at all.          *)
C23_DamageClampsAndZeroIsIdempotent ==
    [][(/\ last'.op = "dispatch_action"
        /\ last'.input.function_name \in {"apply_damage", "apply_sanity_change"})
       => LET params == last'.input.parameters
              pid == params.player_id
              old == players[pid].stats
              hurt == last'.input.function_name = "apply_damage"
              cur == IF hurt THEN "hp" ELSE "san"
              top == IF hurt THEN "hp_max" ELSE "san_max"
              moved == IF hurt THEN old[cur] - params.amount ELSE old[cur] + params.amount
              held == IF moved < old[top] THEN moved ELSE old[top]
              value == IF held < 0 THEN 0 ELSE held
          IN  /\ last'.err = NoExc
              /\ players' = [players EXCEPT ![pid].stats[cur] = value]
              /\ (hurt /\ params.amount = 0)
                    => /\ _apply_damage(players', params).players = players'
                       /\ WithinBounds(old) => players' = players]_vars

(* a negative damage of MaxHp+1 brought p1 up to its maximum and no more   *)
C23_Witness ==
    /\ last.op = "dispatch_action"
    /\ last.err = NoExc
    /\ last.input = Damage("p1", -(MaxHp + 1))
    /\ players["p1"].stats.hp = MaxHp
    /\ players["p1"].stats.hp_max = MaxHp

(* C24: update_player_attribute resolves the name in this order: a name    *)
(* "skills.<name>" adds delta to that skill, from 0 when absent, unclamped;*)
(* else a name among the core attributes gets delta added, unclamped; else *)
(* a name among the derived stats gets delta added, hp and san held in     *)
(* [0, maximum]; any other name fails with the unknown-attribute error and *)
(* changes nothing.                                                        *)
C24_AttributeNameResolution ==
    [][(/\ last'.op = "dispatch_action"
        /\ last'.input.function_name = "update_player_attribute"
        /\ {"player_id", "attribute", "delta"} \subseteq DOMAIN last'.input.parameters
        /\ last'.input.parameters.player_id \in DOMAIN players
        /\ last'.input.parameters.attribute \notin {<<"hp_max">>, <<"san_max">>})
       => LET pid == last'.input.parameters.player_id
              name == last'.input.parameters.attribute
              d == last'.input.parameters.delta
              old == players[pid]
              new == players'[pid]
              top == IF name = <<"hp">> THEN old.stats.hp_max ELSE old.stats.san_max
              sum == old.stats[name[1]] + d
              held == IF sum < 0 THEN 0 ELSE IF sum > top THEN top ELSE sum
          IN  /\ \A q \in DOMAIN players \ {pid} : players'[q] = players[q]
              /\ IF Len(name) >= 2 /\ name[1] = "skills" THEN
                    /\ last'.err = NoExc
                    /\ DOMAIN new.skills = DOMAIN old.skills \cup {name[2]}
                    /\ new.skills[name[2]] =
                          (IF name[2] \in DOMAIN old.skills THEN old.skills[name[2]] ELSE 0) + d
                    /\ \A k \in DOMAIN old.skills \ {name[2]} : new.skills[k] = old.skills[k]
                    /\ new = [old EXCEPT !.skills = new.skills]
                  ELSE IF Len(name) = 1 /\ name[1] \in DOMAIN old.attributes THEN
                    /\ last'.err = NoExc
                    /\ new = [old EXCEPT !.attributes[name[1]] = @ + d]
                  ELSE IF Len(name) = 1 /\ name[1] \in DOMAIN old.stats THEN
                    /\ last'.err = NoExc
                    /\ new = [old EXCEPT !.stats[name[1]] =
                                 IF name[1] \in {"hp", "san"} THEN held ELSE sum]
                  ELSE
                    /\ last'.err = "KeyError: Unknown attribute"
                    /\ players' = players]_vars

(* the skill occult stands at -1 after a delta of -1: nothing held it at 0 *)
C24_Witness ==
    /\ last.op = "dispatch_action"
    /\ last.err = NoExc
    /\ last.input = UpdateAttribute("p1", <<"skills", "occult">>, -1)
    /\ "occult" \in DOMAIN players["p1"].skills
    /\ players["p1"].skills["occult"] = -1
    /\ players["p1"].attributes.str = 2

(* C25: one dispatcher application is atomic: when dispatch_action fails   *)
(* (player not found, unknown attribute name, missing required parameter,  *)
(* unsupported kind), every value of every player is as before the call;   *)
(* and each of these four inputs does fail.                                *)
C25_FailedDispatchChangesNothing ==
    [][(last'.op = "dispatch_action")
       => /\ last'.err # NoExc => players' = players
          /\ last'.input = Damage(UnknownPlayer, 1) => last'.err = "KeyError: Player not found"
          /\ last'.input = UpdateAttribute("p1", <<"stats", "hp">>, 1)
                => last'.err = "KeyError: Unknown attribute"
          /\ last'.input = ActionCall("apply_damage", [player_id |-> "p1"])
                => last'.err = "KeyError: amount"
          /\ last'.input.function_name = "heal" => last'.err # NoExc]_vars

(* an unknown attribute name was refused on a p1 with hp 0 and luck 2,     *)
(* both of which a written delta of 1 would have shown on                  *)
C25_Witness ==
    /\ last.op = "dispatch_action"
    /\ last.err = "KeyError: Unknown attribute"
    /\ last.input = UpdateAttribute("p1", <<"stats", "hp">>, 1)
    /\ players["p1"].stats.hp = 0
    /\ players["p1"].stats.luck = 2

(* C26: when the oracle's reply to a player action fails output            *)
(* validation, handle_player_action issues no follow-up oracle turn,       *)
(* whether or not the rejected reply held actions: the only oracle calls   *)
(* of the step are the primary one and, at most, a forced-ending one.      *)
C26_RejectedReplyHasNoFollowup ==
    [][(/\ last'.op = "handle_player_action"
        /\ last'.input # NoReply
        /\ last'.input.raise = NoExc
        /\ validate_keeper_output(ForcePublic(last'.input.output)) # <<>>)
       => /\ last'.done
          /\ last'.calls = 1 + (IF ending_forced' /\ ~ending_forced THEN 1 ELSE 0)]_vars

(* C27: within one handle_player_action call a follow-up oracle turn is    *)
(* issued only if the oracle output just before it held an action, the     *)
(* phase is not "ended", and the acting player has hp > 0 and san > 0 at   *)
(* that moment.  A step's oracle calls beyond its forced-ending call are   *)
(* its follow-up calls: a primary output without actions is followed by    *)
(* none, and a call that wakes from its cooldown in an ended phase, or     *)
(* with its player dead or insane, issues none.                            *)
C27_FollowupOnlyWhileTurnIsLive ==
    [][/\ (/\ last'.op = "handle_player_action"
           /\ last'.input # NoReply
           /\ last'.input.raise = NoExc
           /\ last'.input.output.actions = <<>>)
          => last'.calls <= 1 + (IF ending_forced' /\ ~ending_forced THEN 1 ELSE 0)
       /\ \A i \in Pipelines :
            (/\ pipe[i].pc = "cooldown"
             /\ pipe'[i] # pipe[i]
             /\ last'.op = "followup"
             /\ phase = "ended" \/ ~_is_player_active(players, pipe[i].player_id))
            => last'.calls - pipe[i].calls
                 <= (IF ending_forced' /\ ~ending_forced THEN 1 ELSE 0)]_vars

(* the forced-ending oracle turns of the call last belongs to: its oracle  *)
(* calls that are neither the primary call nor a call of the follow-up     *)
(* loop                                                                    *)
ForcedTurns == last.calls - (IF last.calls > 0 THEN 1 ELSE 0) - last.turns.asked

(* C28: whatever the oracle replies or raises, one handle_player_action    *)
(* call hands at most max_followups follow-up outputs to                   *)
(* _handle_keeper_output, issues at most one forced-ending oracle turn,    *)
(* and, once started, returns.                                             *)
C28_TurnIsBoundedAndTerminates ==
    /\ [](last.op \in {"handle_player_action", "followup", "followup_retry"}
            => /\ last.turns.handled <= max_followups
               /\ last.turns.followups <= max_followups
               /\ ForcedTurns <= 1)
    /\ (pipe[1].pc # "idle") ~> (pipe[1].pc = "idle")

(* a call returned after max_followups follow-up outputs and a forced      *)
(* ending                                                                  *)
C28_Witness ==
    /\ last.op = "followup"
    /\ last.done
    /\ last.turns.handled = max_followups
    /\ ForcedTurns = 1
    /\ ending_forced

(* C29: a forced-ending oracle turn is issued only when the phase is not   *)
(* "ended", no ending was forced before, the actions of the turn being     *)
(* checked hold no end_module, and the whole quorum is inactive; once the  *)
(* phase is "ended" or an ending was forced, no later turn issues one.  A  *)
(* step issues a forced-ending turn when it sets ending_forced.            *)
C29_ForcedEndingOnlyWhenDue ==
    [][/\ (ending_forced' /\ ~ending_forced)
          => /\ phase # "ended"
             /\ (\/ last'.op = "handle_keeper_output"
                 \/ last'.op = "handle_player_action" /\ last'.turns.asked = 0)
                  => ~HasEndModule(last'.input.output.actions)
       /\ (/\ phase = "ended" \/ ending_forced
           /\ last'.op \in {"handle_player_action", "handle_keeper_output"})
          => /\ last'.calls = (IF last'.op = "handle_player_action"
                                  THEN last'.turns.asked + (IF last'.calls > 0 THEN 1 ELSE 0)
                                  ELSE 0)
             /\ ending_forced' = ending_forced]_vars

(* C30: after a handle_player_action or handle_keeper_output call has      *)
(* returned, in a session whose players all started active: if the phase   *)
(* is "active" and no ending was forced, some player of the forced-ending  *)
(* quorum (the tracked players of the last reported online list, all       *)
(* tracked players when none was reported) has hp > 0 and san > 0.         *)
C30_AllInactiveIsNeverLeftUndetected ==
    (/\ last.op \in {"handle_player_action", "followup", "followup_retry",
                     "handle_keeper_output"}
     /\ last.done
     /\ last.err = NoExc
     /\ phase = "active"
     /\ ~ending_forced)
    => \E p \in (IF last_online_ids # {} THEN DOMAIN players \cap last_online_ids
                 ELSE DOMAIN players) :
          players[p].stats.hp > 0 /\ players[p].stats.san > 0

(* the dispatcher applied to the actions from the k-th on, in order, up to *)
(* the first that raises (end_module is not dispatched): the players it    *)
(* leaves, the diffs it returned, the index of the action that raised (0   *)
(* when none did) and the exception                                        *)
RECURSIVE DispatchInOrder(_, _, _, _, _)
DispatchInOrder(ps, actions, rnd, k, diffs) ==
    IF k > Len(actions) THEN [players |-> ps, diffs |-> diffs, failed |-> 0, err |-> NoExc]
    ELSE IF actions[k].function_name = "end_module"
    THEN DispatchInOrder(ps, actions, rnd, k + 1, diffs)
    ELSE IF dispatch_action(actions[k], ps, rnd).err # NoExc
    THEN [players |-> ps, diffs |-> diffs, failed |-> k,
          err |-> dispatch_action(actions[k], ps, rnd).err]
    ELSE DispatchInOrder(dispatch_action(actions[k], ps, rnd).players, actions, rnd, k + 1,
                         Append(diffs, dispatch_action(actions[k], ps, rnd).diff))

(* the step handed an oracle output that passes validation to              *)
(* _handle_keeper_output as the first thing it did with the oracle         *)
HandlesOutput ==
    /\ last'.op \in {"handle_player_action", "followup", "followup_retry",
                     "handle_keeper_output"}
    /\ last'.input # NoReply
    /\ last'.input.raise = NoExc
    /\ ~(last'.op = "followup" /\ last'.input.output.parse_error)
    /\ validate_keeper_output(ForcePublic(last'.input.output)) = <<>>

(* the entries the step appended to the history cache *)
Appended == SubSeq(history_cache', Len(history_cache) + 1, Len(history_cache'))

(* the actions before the k-th that are dispatched *)
DispatchedBefore(actions, k) ==
    SelectSeq(SubSeq(actions, 1, k - 1), LAMBDA a : a.function_name # "end_module")

(* C31: when the k-th action of a batch of embedded actions fails in the   *)
(* dispatcher, actions 1..k-1 stay applied and their entries, with their   *)
(* diffs, are in the history cache; action k changes nothing; no later     *)
(* action is dispatched; and the history cache gets exactly one entry that *)
(* only the host sees and that carries the failure.  Stated for the steps  *)
(* in which no forced-ending turn is nested in the batch.                  *)
C31_FailedActionStopsTheBatch ==
    [][\A rnd \in Draws :
         (/\ HandlesOutput
          /\ ending_forced' = ending_forced
          /\ DispatchInOrder(players, last'.input.output.actions, rnd, 1, <<>>).failed > 0)
         => LET r == DispatchInOrder(players, last'.input.output.actions, rnd, 1, <<>>)
                before == DispatchedBefore(last'.input.output.actions, r.failed)
                applied == SelectSeq(Appended, IsActionEntry)
            IN  /\ \A p \in DOMAIN players : players'[p].stats = r.players[p].stats
                /\ Len(applied) = Len(before)
                /\ \A j \in 1..Len(applied) :
                     /\ applied[j].actions = <<before[j]>>
                     /\ applied[j].state_diff = r.diffs[j]
                /\ Cardinality({i \in 1..Len(Appended) :
                                  /\ HostOnly(Appended[i])
                                  /\ Appended[i].state_diff = [keeper_error |-> r.err]}) = 1]_vars

(* the visibility rules of an entry *)
KeepsVisibilityRules(entry) ==
    /\ entry.message_type = "public" => entry.visible_to = <<"all">>
    /\ entry.message_type = "secret"
         => entry.visible_to # <<>> /\ ~InList(entry.visible_to, "all")
    /\ entry.message_type = "system" => entry.visible_to # <<>>

(* the step was given a public oracle output with content and well-formed  *)
(* actions, as the first thing it did with the oracle                      *)
HandlesPublicOutput ==
    /\ last'.op \in {"handle_player_action", "followup", "followup_retry",
                     "handle_keeper_output"}
    /\ last'.input # NoReply
    /\ last'.input.raise = NoExc
    /\ ~(last'.op = "followup" /\ last'.input.output.parse_error)
    /\ last'.input.output.message_type = "public"
    /\ last'.input.output.has_content
    /\ AllActionErrors(last'.input.output.actions) = <<>>

(* C32: every entry in the history cache keeps the visibility rules: a     *)
(* public entry has visible_to exactly ["all"], a secret entry a non-empty *)
(* visible_to without "all", a system entry a non-empty visible_to; and a  *)
(* public oracle output is recorded as a narration entry with visible_to   *)
(* ["all"] whatever visible_to it supplied.                                *)
C32_HistoryKeepsVisibilityRules ==
    /\ [](\A i \in 1..Len(history_cache) : KeepsVisibilityRules(history_cache[i]))
    /\ [][HandlesPublicOutput
          => LET at == IF last'.op = "handle_player_action" THEN 2 ELSE 1
             IN  /\ Len(Appended) >= at
                 /\ Appended[at].action_type = "keeper_narration"
                 /\ Appended[at].message_type = "public"
                 /\ Appended[at].actions = last'.input.output.actions
                 /\ Appended[at].visible_to = <<"all">>]_vars

(* the history holds a secret narration addressed to p1 and, after it, the *)
(* narration of a public output that had named p1 alone                    *)
C32_Witness ==
    /\ last.op = "handle_keeper_output"
    /\ last.input.output = KeeperOutput("public", <<"p1">>, <<>>)
    /\ last.ret = <<history_cache[Len(history_cache)]>>
    /\ history_cache[Len(history_cache)].action_type = "keeper_narration"
    /\ history_cache[Len(history_cache)].visible_to = <<"all">>
    /\ \E i \in 1..Len(history_cache) :
         /\ history_cache[i].message_type = "secret"
         /\ history_cache[i].visible_to = <<"p1">>

(***************************************************************************)
(* A session in which the host hands in outputs that add and remove status *)
(* tags, between the turns of p1, and may reset the session.               *)
(***************************************************************************)
AddStatus(p, tag) == ActionCall("add_status", [player_id |-> p, status |-> tag])
RemoveStatus(p, tag) == ActionCall("remove_status", [player_id |-> p, status |-> tag])

StatusOutputs ==
    {KeeperOutput("public", <<"all">>, b) :
        b \in {<<AddStatus("p1", "cursed")>>, <<AddStatus("p1", "blessed")>>,
               <<RemoveStatus("p1", "cursed")>>,
               <<AddStatus("p2", "cursed"), Damage("p2", MaxHp)>>}}

NextRecorded ==
    \/ HandlePlayerAction(1, "p1", {"p1"})
    \/ WakeFromCooldown(1)
    \/ WakeFromParseRetry(1)
    \/ AllIdle /\ \E o \in StatusOutputs : HostMessage(o)
    \/ AllIdle /\ ResetSession

SpecRecorded == InitConc /\ [][NextRecorded]_vars

(* what a reader of a recorded entry finds in its state_diff while the     *)
(* player records are ps: a diff that holds a player's list by reference   *)
(* shows the list as it is now                                             *)
ReadDiff(entry, ps) ==
    IF "alias" \in DOMAIN entry.state_diff /\ entry.state_diff.alias # ""
    THEN [player |-> entry.state_diff.player, fields |-> entry.state_diff.fields,
          list |-> ps[entry.state_diff.player][entry.state_diff.alias]]
    ELSE entry.state_diff

(* C33: between resets the history cache only grows at its end, and no     *)
(* recorded entry changes: its fields stay, and so does the payload of its *)
(* state_diff (a statuses, items or clues list) when a later action        *)
(* changes the player's record.                                            *)
C33_HistoryIsAppendOnly ==
    [][last'.op \notin {"reset_session", "start_session"}
       => /\ Len(history_cache') >= Len(history_cache)
          /\ \A i \in 1..Len(history_cache) :
               /\ history_cache'[i] = history_cache[i]
               /\ ReadDiff(history_cache'[i], players') = ReadDiff(history_cache[i], players)]_vars

(* the player an action names, "" when it names none *)
NamedPlayer(action) == Get(action.parameters, "player_id", "")

(* entries, from the j-th on, holds the entries of the actions in their    *)
(* order: for an end_module the ending entry, for any other action its     *)
(* system entry with the diff the dispatcher returned, directly followed   *)
(* by the death or madness entry of the player it names when the action    *)
(* brought the hp or san of a player without the tag to 0 or below, and by *)
(* no such entry otherwise; ps are the player records before the j-th      *)
(* entry was made                                                          *)
RECURSIVE BatchInOrder(_, _, _, _, _)
BatchInOrder(entries, j, actions, ps, rnd) ==
    IF actions = <<>> THEN TRUE
    ELSE IF j > Len(entries) THEN FALSE
    ELSE IF Head(actions).function_name = "end_module"
    THEN /\ IsEndingEntry(entries[j])
         /\ entries[j].state_diff.ending_id = Get(Head(actions).parameters, "ending_id", "")
         /\ BatchInOrder(entries, j + 1, Tail(actions), ps, rnd)
    ELSE
      LET a == Head(actions)
          pid == NamedPlayer(a)
          d == dispatch_action(a, ps, rnd)
          next_is(e) == j + 1 <= Len(entries) /\ entries[j + 1] = e
      IN  /\ d.err = NoExc
          /\ entries[j] = ActionEntry(a, d.diff)
          /\ IF pid \in DOMAIN ps /\ next_is(DeathEntry(pid))
             THEN /\ d.players[pid].stats.hp <= 0
                  /\ ~InList(ps[pid].statuses, "dead")
                  /\ BatchInOrder(entries, j + 2, Tail(actions),
                                  [d.players EXCEPT ![pid].statuses = Append(@, "dead")], rnd)
             ELSE IF pid \in DOMAIN ps /\ next_is(MadnessEntry(pid))
             THEN /\ d.players[pid].stats.san <= 0
                  /\ ~InList(ps[pid].statuses, "insane")
                  /\ BatchInOrder(entries, j + 2, Tail(actions),
                                  [d.players EXCEPT ![pid].statuses = Append(@, "insane")], rnd)
             ELSE /\ pid \in DOMAIN ps
                       => /\ ~(/\ Dropped(ps, d.players, pid, "hp") = 1
                               /\ ~InList(ps[pid].statuses, "dead"))
                          /\ ~(/\ Dropped(ps, d.players, pid, "san") = 1
                               /\ d.players[pid].stats.hp > 0
                               /\ ~InList(ps[pid].statuses, "insane"))
                  /\ BatchInOrder(entries, j + 1, Tail(actions), d.players, rnd)

Collected(c) == c.entries \o c.all_entries

(* C35: the list a handle_player_action call returns equals, in order, the *)
(* entries the call appended to the history cache, also when the oracle or *)
(* an embedded action fails.  Step by step: what the call has collected    *)
(* after a step (the returned list when the step returns) is what it had   *)
(* collected before the step followed by the entries the step appended.    *)
C35_ReturnedListIsWhatWasRecorded ==
    [][last'.op \in {"handle_player_action", "followup", "followup_retry"}
       => (IF last'.done THEN last'.ret ELSE Collected(pipe'[1]))
            = (IF last'.op = "handle_player_action" THEN <<>> ELSE Collected(pipe[1]))
              \o Appended]_vars

(* the percentile total a tens digit gives with a unit digit: 00 and 0     *)
(* read as 100                                                             *)
TotalOf(tens_digit, unit) ==
    IF tens_digit * 10 + unit = 0 THEN 100 ELSE tens_digit * 10 + unit

(* C36: with bonus dice (net bonus > 0) the percentile total is the least, *)
(* and with penalty dice (net bonus < 0) the greatest, of the totals that  *)
(* the drawn tens digits give with the drawn unit digit, 00 with unit 0    *)
(* counting as 100.                                                        *)
C36_BonusTakesTheBestTotal ==
    last.op = "roll_coc_check"
    => LET r == last.ret
           net == Max(0, last.input.bonus_dice) - Max(0, last.input.penalty_dice)
           totals == {TotalOf(r.tens_rolls[k], r.unit) : k \in 1..Len(r.tens_rolls)}
       IN  /\ net > 0 => /\ r.total \in totals
                         /\ \A t \in totals : r.total <= t
           /\ net < 0 => /\ r.total \in totals
                         /\ \A t \in totals : r.total >= t

(* the values a diff shows for the keys of a section (stats, attributes,   *)
(* skills) of its player, as pairs <<key, value>>                          *)
ShownIn(diff, section) ==
    IF section \in DOMAIN diff.fields
    THEN {<<diff.fields[section].name, diff.fields[section].value>>}
    ELSE IF section = "stats"
    THEN {<<k, diff.fields[k]>> : k \in DOMAIN diff.fields \cap {"hp", "hp_max", "san", "san_max"}}
    ELSE {}

(* every key of the section whose value differs between the records old    *)
(* and new is shown by the diff with its new value                         *)
SectionCovered(diff, section, old, new) ==
    \A k \in DOMAIN new[section] :
        (k \notin DOMAIN old[section] \/ old[section][k] # new[section][k])
        => <<k, new[section][k]>> \in ShownIn(diff, section)

(* C37: a successful dispatch_action that names player p returns a diff    *)
(* keyed by p that shows every field of p's record that changed, with its  *)
(* new value: every changed stat, attribute and skill, the hp or san that  *)
(* an hp_max or san_max update re-clamped included, and the statuses,      *)
(* items or clues list when it changed.                                    *)
C37_DiffShowsEveryChange ==
    [][\A rnd \in Draws :
         (/\ last'.op = "dispatch_action"
          /\ last'.err = NoExc
          /\ "player_id" \in DOMAIN last'.input.parameters)
         => LET p == last'.input.parameters.player_id
                diff == dispatch_action(last'.input, players, rnd).diff
            IN  /\ diff.player = p
                /\ \A section \in {"stats", "attributes", "skills"} :
                     SectionCovered(diff, section, players[p], players'[p])
                /\ \A list \in {"statuses", "items", "clues"} :
                     players'[p][list] # players[p][list] => diff.alias = list]_vars

(* C38: in a session whose oracle never adds or removes the "dead" and     *)
(* "insane" tags itself, a player carries "dead" only while hp <= 0 and    *)
(* "insane" only while san <= 0; so no player carries either tag once      *)
(* reset_session has restored hp and san to their maxima.                  *)
C38_TagsFollowTheStats ==
    \A p \in DOMAIN players :
        /\ InList(players[p].statuses, "dead") => players[p].stats.hp <= 0
        /\ InList(players[p].statuses, "insane") => players[p].stats.san <= 0

(* C39: the actions embedded in a secret narration do not leak.  When a    *)
(* secret output addressed to the viewers S, with actions, is handled, a   *)
(* player outside S sees none of the entries it produces: that player's    *)
(* filtered history is what it was before, as it would be had the secret   *)
(* narration carried no actions.  Stated for the outputs handed in through *)
(* handle_keeper_output.                                                   *)
C39_SecretActionsDoNotLeak ==
    [][(/\ HandlesOutput
        /\ last'.op = "handle_keeper_output"
        /\ last'.input.output.message_type = "secret"
        /\ last'.input.output.actions # <<>>)
       => \A v \in Viewers :
            ~InList(last'.input.output.visible_to, v)
            => filter_history(history_cache', v, "player")
                 = filter_history(history_cache, v, "player")]_vars

(* C40: a dispatch_action call whose parameters name player p changes the  *)
(* record of no other player, and a dispatch_action call of any kind       *)
(* changes no other key of the world state (the phase, the forced-ending   *)
(* flag, the shared findings) and adds or drops no player; roll_dice and   *)
(* oppose_check leave the whole world state as it was.                     *)
C40_DispatchTouchesOnlyItsPlayer ==
    [][last'.op = "dispatch_action"
       => /\ phase' = phase
          /\ ending_forced' = ending_forced
          /\ shared_findings' = shared_findings
          /\ DOMAIN players' = DOMAIN players
          /\ \A q \in DOMAIN players :
               q # NamedPlayer(last'.input) => players'[q] = players[q]
          /\ last'.input.function_name \in {"roll_dice", "oppose_check"}
               => players' = players]_vars

(* p2 took damage while p1, already at hp 0 and san 1, kept its record *)
C40_Witness ==
    /\ last.op = "dispatch_action"
    /\ last.err = NoExc
    /\ last.input = Damage("p2", 1)
    /\ players["p2"].stats.hp = MaxHp - 1
    /\ players["p1"].stats.hp = 0
    /\ players["p1"].stats.san = 1
====
